---- MODULE Spec2Model ----
(***************************************************************************)
(* Verification model of zxteamorg/node.sql-postgres: the typed value      *)
(* cell (PostgresData), the result record, the statement executor and its  *)
(* multi-set protocol, as written in the TypeScript source.                *)
(*                                                                         *)
(* The module holds several specifications over one set of variables:      *)
(*   SpecData   one PostgresData cell and one accessor call on it          *)
(*   SpecExec   one driver reply and one single-set executor operation     *)
(*   SpecMulti  executeQueryMultiSets, one step per awaited driver call    *)
(*   SpecFactory    the provider factory, its pool and its callers         *)
(*   SpecRoundTrip  statement parameters written and read back             *)
(*   SpecRecord     get(index) and get(name) of a result record            *)
(*   SpecProvider   one provider, its statements and its temporary table   *)
(*   SpecMigration  the migration manager's version ledger                 *)
(* A specification leaves the variables of the others at their idle value. *)
(***************************************************************************)
EXTENDS Integers, Sequences, FiniteSets, TLC

VARIABLES
    \* ---- PostgresData (value cell) ----
    data,        \* the cell: [_postgresValue, _fi]
    caller,      \* the accessor that was read, "none" before the read
    got,         \* outcome of the accessor read
    \* ---- single-set statement execution ----
    reply,       \* what the driver answers to db.query: a result or a rejection
    op,          \* executor operation that ran, "none" before it ran
    ret,         \* outcome of the executor operation
    \* ---- executeQueryMultiSets ----
    pc,          \* position inside executeQueryMultiSets
    token,       \* cancellationToken.isCancellationRequested
    stmtReply,   \* what the driver will answer to the statement itself
    cursors,     \* server side: handle -> rows still to be fetched from the cursor
    sent,        \* SQL texts handed to db.query, in order
    answered,    \* the driver's answers to the queries of sent, in order, each
                 \* with the state of the token when the answer arrived
    handles,     \* resultFetchsValue
    idx,         \* loop variable i (1-based)
    friendlyResult,
    caught,      \* the failure e caught by the catch block
    mret,        \* outcome of executeQueryMultiSets
    \* ---- PostgresProviderFactory, its pool and the providers it hands out ----
    factoryState,\* Initable state of the factory
    pool,        \* pg.Pool: clients checked out, number of end() calls
    task,        \* per logical caller: its one call on the factory and what
                 \* it holds (token, pgClient, provider, Statement object)
    \* ---- statement parameters written and read back ----
    zone,        \* the local time zone rule of the process
    args,        \* the parameters the caller passes to an executor operation
    stored,      \* what the database holds for each parameter after the insert
    \* ---- PostgresSqlResultRecord.get ----
    rec,         \* outcome of new PostgresSqlResultRecord(row, fields)
    key,         \* the index or name passed to get
    cell,        \* outcome of get
    \* ---- one provider, its statements and its temporary table ----
    prov,
    \* ---- PostgresMigrationManager ----
    db,          \* the tables and views of the configured schema, the ledger
    mig,         \* the manager's call and its outcome
    sources,     \* migrationSources.versionNames of the manager
    \* ---- PostgresProviderFactory with a lazily created, counted pool ----
    lazy         \* [_providesCount, _postgresConnectionPool, pools, calls]

dataVars  == <<data, caller, got>>
execVars  == <<reply, op, ret>>
multiVars == <<pc, token, stmtReply, cursors, sent, answered, handles, idx,
               friendlyResult, caught, mret>>
factoryVars == <<factoryState, pool, task>>
tripVars   == <<zone, args, stored>>
recordVars == <<rec, key, cell>>
migVars    == <<db, mig, sources>>
laterVars  == <<tripVars, recordVars, prov, migVars, lazy>>
vars      == <<dataVars, execVars, multiVars, factoryVars, laterVars>>

----------------------------------------------------------------------------
(* Bounds of the model *)
MaxFields == 2
MaxRows   == 2
MaxHandles == 2

(* PostgresObjectID: the wire type tags the code looks at, and two it does not *)
OID_bool        == 16
OID_int4        == 23
OID_timestamp   == 1114
OID_timestamptz == 1184
OID_numeric     == 1700
OID_refcursor   == 1790
OID_void        == 2278
OID_jsonb       == 3802

----------------------------------------------------------------------------
(* JavaScript values as the driver hands them over.  A value is a record   *)
(* tagged with its runtime representation; numbers are kept in tenths      *)
(* (n10 = 15 is 1.5) so that non-integral numbers exist; strings are       *)
(* sequences of characters.                                                *)
NullV        == [t |-> "null"]
UndefinedV   == [t |-> "undefined"]
BoolV(b)     == [t |-> "boolean", b |-> b]
NumV(n10)    == [t |-> "number", n10 |-> n10]
NaNV         == [t |-> "NaN"]
StrV(s)      == [t |-> "string", s |-> s]
DateV(ms)    == [t |-> "Date", ms |-> ms]
BufferV(b)   == [t |-> "Buffer", bytes |-> b]
ObjectV(o)   == [t |-> "Object", json |-> o]
ArrayV(a)    == [t |-> "Array", items |-> a]

(* The local time zone rule of the process: the minutes local time is behind
   UTC (what Date.getTimezoneOffset returns) before instant 0 and from
   instant 0 on.  Instants are milliseconds relative to the zone's switch. *)
Zone(before, after) == [before |-> before, after |-> after]
UTC == Zone(0, 0)

Ret(v)   == [kind |-> "return", value |-> v]
Throw(e) == [kind |-> "throw", error |-> e]
Idle     == [kind |-> "idle"]

IsBoolean(v)    == v.t = "boolean"
IsString(v)     == v.t = "string"
IsNumber(v)     == v.t \in {"number", "NaN"}
IsInteger(v)    == v.t = "number" /\ v.n10 % 10 = 0
IsDate(v)       == v.t = "Date"
IsUint8Array(v) == v.t = "Buffer"

ConstructorName(v) ==
    CASE v.t = "boolean" -> "Boolean"
      [] v.t = "string"  -> "String"
      [] v.t \in {"number", "NaN"} -> "Number"
      [] OTHER -> v.t

Digits == <<"0", "1", "2", "3", "4", "5", "6", "7", "8", "9">>
IsDigit(c) == \E d \in 1..10 : Digits[d] = c
DigitVal(c) == (CHOOSE d \in 1..10 : Digits[d] = c) - 1

RECURSIVE DigitRun(_, _)
(* length of the run of digits of s that starts at position p *)
DigitRun(s, p) ==
    IF p <= Len(s) /\ IsDigit(s[p]) THEN 1 + DigitRun(s, p + 1) ELSE 0

RECURSIVE DigitsValue(_, _, _)
(* value of the n digits of s that start at position p *)
DigitsValue(s, p, n) ==
    IF n = 0 THEN 0
    ELSE DigitsValue(s, p, n - 1) * 10 + DigitVal(s[p + n - 1])

(* Number.parseFloat on a string: optional sign, digits, optional fraction;
   the longest numeric prefix counts, NaN when there is none.  The model
   keeps tenths, so the fraction is read to its first digit. *)
ParseFloat(s) ==
    LET neg  == Len(s) >= 1 /\ s[1] = "-"
        p0   == IF Len(s) >= 1 /\ s[1] \in {"-", "+"} THEN 2 ELSE 1
        nInt == DigitRun(s, p0)
        dot  == p0 + nInt
        nFr  == IF dot <= Len(s) /\ s[dot] = "." THEN DigitRun(s, dot + 1) ELSE 0
        whole == DigitsValue(s, p0, nInt)
        frac == IF nFr = 0 THEN 0 ELSE DigitVal(s[dot + 1])
        mag  == whole * 10 + frac
    IN  IF nInt = 0 /\ nFr = 0 THEN NaNV
        ELSE NumV(IF neg THEN 0 - mag ELSE mag)

(* FinancialOperation of @zxteam/financial, kept symbolic: which conversion
   was applied to which raw value. *)
FinancialFromFloat(v) == [t |-> "Financial", via |-> "fromFloat", of |-> v]
FinancialParse(v)     == [t |-> "Financial", via |-> "parse", of |-> v]

----------------------------------------------------------------------------
(* Errors.  An error is a record with the name of its class; the message is
   kept as the record of the parts the code formats into it. *)
NoSub == [none |-> TRUE]

InvalidOperationError(msg) == [name |-> "InvalidOperationError", message |-> msg]
ArgumentError(arg)         == [name |-> "ArgumentError", message |-> [arg |-> arg]]
SqlNoSuchRecordError(msg)  == [name |-> "SqlNoSuchRecordError", message |-> msg]
NoInner == [name |-> "none"]
SqlError(msg, inner)       == [name |-> "SqlError", message |-> msg, innerError |-> inner]
TypeError(msg)             == [name |-> "TypeError", message |-> msg]
InternalError(msg)         == [name |-> "Error", message |-> msg]
CancelledError             == [name |-> "CancelledError", message |-> [text |-> "cancelled"]]

----------------------------------------------------------------------------
(* PostgresData *)

(* constructor: an undefined raw value is refused *)
PostgresData(postgresValue, fi) ==
    IF postgresValue = UndefinedV
    THEN Throw(ArgumentError("postgresValue"))
    ELSE Ret([_postgresValue |-> postgresValue, _fi |-> fi])

formatWrongDataTypeMessage(d, callerName, subMessage) ==
    [caller     |-> callerName,
     field      |-> d._fi.name,
     dataTypeID |-> d._fi.dataTypeID,
     ctor       |-> IF d._postgresValue # NullV /\ d._postgresValue # UndefinedV
                    THEN ConstructorName(d._postgresValue)
                    ELSE d._postgresValue.t,
     sub        |-> subMessage]

WrongType(d, callerName) ==
    Throw(InvalidOperationError(formatWrongDataTypeMessage(d, callerName, NoSub)))
WrongTypeSub(d, callerName, sub) ==
    Throw(InvalidOperationError(formatWrongDataTypeMessage(d, callerName, sub)))

asBoolean(d) ==
    IF IsBoolean(d._postgresValue) THEN Ret(d._postgresValue)
    ELSE WrongType(d, "asBoolean")

asNullableBoolean(d) ==
    IF d._postgresValue = NullV THEN Ret(NullV)
    ELSE IF IsBoolean(d._postgresValue) THEN Ret(d._postgresValue)
    ELSE WrongType(d, "asNullableBoolean")

asString(d) ==
    IF d._postgresValue = NullV THEN WrongType(d, "asString")
    ELSE IF IsString(d._postgresValue) THEN Ret(d._postgresValue)
    ELSE WrongType(d, "asString")

asNullableString(d) ==
    IF d._postgresValue = NullV THEN Ret(NullV)
    ELSE IF IsString(d._postgresValue) THEN Ret(d._postgresValue)
    ELSE WrongType(d, "asNullableString")

asInteger_AnyNumber(d) ==
    IF d._postgresValue = NullV THEN WrongType(d, "asInteger")
    ELSE IF IsNumber(d._postgresValue) THEN Ret(d._postgresValue)
    ELSE WrongType(d, "asInteger")

asInteger(d) ==
    IF d._postgresValue = NullV THEN WrongType(d, "asInteger")
    ELSE IF IsNumber(d._postgresValue) /\ IsInteger(d._postgresValue)
         THEN Ret(d._postgresValue)
    ELSE WrongType(d, "asInteger")

asNullableInteger(d) ==
    IF d._postgresValue = NullV THEN Ret(NullV)
    ELSE IF IsNumber(d._postgresValue) /\ IsInteger(d._postgresValue)
         THEN Ret(d._postgresValue)
    ELSE WrongType(d, "asNullableInteger")

asNumber(d) ==
    IF d._postgresValue = NullV THEN WrongType(d, "asNumber")
    ELSE IF IsNumber(d._postgresValue) THEN Ret(d._postgresValue)
    ELSE IF d._fi.dataTypeID = OID_numeric /\ IsString(d._postgresValue)
         THEN Ret(ParseFloat(d._postgresValue.s))
    ELSE WrongType(d, "asNumber")

asNullableNumber(d) ==
    IF d._postgresValue = NullV THEN Ret(NullV)
    ELSE IF IsNumber(d._postgresValue) THEN Ret(d._postgresValue)
    ELSE IF d._fi.dataTypeID = OID_numeric /\ IsString(d._postgresValue)
         THEN Ret(ParseFloat(d._postgresValue.s))
    ELSE WrongType(d, "asNullableNumber")

asFinancial(d) ==
    IF d._postgresValue = NullV THEN WrongType(d, "asFinancial")
    ELSE IF IsNumber(d._postgresValue) THEN Ret(FinancialFromFloat(d._postgresValue))
    ELSE IF IsString(d._postgresValue) THEN Ret(FinancialParse(d._postgresValue))
    ELSE WrongType(d, "asFinancial")

asNullableFinancial(d) ==
    IF d._postgresValue = NullV THEN Ret(NullV)
    ELSE IF IsNumber(d._postgresValue) THEN Ret(FinancialFromFloat(d._postgresValue))
    ELSE IF IsString(d._postgresValue) THEN Ret(FinancialParse(d._postgresValue))
    ELSE WrongType(d, "asNullableFinancial")

(* Date.prototype.getTimezoneOffset: minutes the process's local zone is
   behind UTC at the instant of the date *)
getTimezoneOffset(dateValue) ==
    IF dateValue.ms < 0 THEN zone.before ELSE zone.after

DateSub(d) == [supported |-> OID_timestamp, gotOID |-> d._fi.dataTypeID]

asDate(d) ==
    IF d._postgresValue = NullV THEN WrongType(d, "asDate")
    ELSE IF d._fi.dataTypeID = OID_timestamp /\ IsDate(d._postgresValue)
         THEN Ret(DateV(d._postgresValue.ms - getTimezoneOffset(d._postgresValue) * 60000))
    ELSE WrongTypeSub(d, "asDate", DateSub(d))

asNullableDate_AnyDateTag(d) ==
    IF d._postgresValue = NullV THEN Ret(NullV)
    ELSE IF IsDate(d._postgresValue)
         THEN Ret(DateV(d._postgresValue.ms - getTimezoneOffset(d._postgresValue) * 60000))
    ELSE WrongTypeSub(d, "asNullableDate", DateSub(d))
asNullableDate(d) ==
    IF d._postgresValue = NullV THEN Ret(NullV)
    ELSE IF d._fi.dataTypeID = OID_timestamp /\ IsDate(d._postgresValue)
         THEN Ret(DateV(d._postgresValue.ms - getTimezoneOffset(d._postgresValue) * 60000))
    ELSE WrongTypeSub(d, "asNullableDate", DateSub(d))

asBinary(d) ==
    IF d._postgresValue = NullV THEN WrongType(d, "asBinary")
    ELSE IF IsUint8Array(d._postgresValue) THEN Ret(d._postgresValue)
    ELSE WrongType(d, "asBinary")

asNullableBinary(d) ==
    IF d._postgresValue = NullV THEN Ret(NullV)
    ELSE IF IsUint8Array(d._postgresValue) THEN Ret(d._postgresValue)
    ELSE WrongType(d, "asNullableBinary")

asObject(d) ==
    IF d._postgresValue = NullV THEN WrongType(d, "asObject")
    ELSE IF d._fi.dataTypeID = OID_jsonb THEN Ret(d._postgresValue)
    ELSE WrongTypeSub(d, "asObject", [supported |-> OID_jsonb])

asNullableObject_TagFirst(d) ==
    IF d._fi.dataTypeID = OID_jsonb THEN Ret(d._postgresValue)
    ELSE WrongType(d, "asNullableObject")

asNullableObject(d) ==
    IF d._postgresValue = NullV THEN Ret(NullV)
    ELSE IF d._fi.dataTypeID = OID_jsonb THEN Ret(d._postgresValue)
    ELSE WrongType(d, "asNullableObject")

StrictAccessors ==
    {"asBoolean", "asString", "asInteger", "asNumber", "asFinancial", "asDate",
     "asBinary", "asObject"}
NullableAccessors ==
    {"asNullableBoolean", "asNullableString", "asNullableInteger",
     "asNullableNumber", "asNullableFinancial", "asNullableDate",
     "asNullableBinary", "asNullableObject"}
Accessors == StrictAccessors \cup NullableAccessors

(* the SqlData getter selected by its name *)
Access(a, d) ==
    CASE a = "asBoolean"           -> asBoolean(d)
      [] a = "asNullableBoolean"   -> asNullableBoolean(d)
      [] a = "asString"            -> asString(d)
      [] a = "asNullableString"    -> asNullableString(d)
      [] a = "asInteger"           -> asInteger(d)
      [] a = "asNullableInteger"   -> asNullableInteger(d)
      [] a = "asNumber"            -> asNumber(d)
      [] a = "asNullableNumber"    -> asNullableNumber(d)
      [] a = "asFinancial"         -> asFinancial(d)
      [] a = "asNullableFinancial" -> asNullableFinancial(d)
      [] a = "asDate"              -> asDate(d)
      [] a = "asNullableDate"      -> asNullableDate(d)
      [] a = "asBinary"            -> asBinary(d)
      [] a = "asNullableBinary"    -> asNullableBinary(d)
      [] a = "asObject"            -> asObject(d)
      [] a = "asNullableObject"    -> asNullableObject(d)

----------------------------------------------------------------------------
(* JavaScript objects as the driver builds them for a row: the keys in
   insertion order and the value under each key.  The driver assigns
   row[field.name] = value field by field, so a repeated column name keeps its
   first position and its last value. *)
EmptyObject == [keys |-> <<>>, vals |-> <<>>]

ObjectSet(o, k, v) ==
    IF \E p \in 1..Len(o.keys) : o.keys[p] = k
    THEN [keys |-> o.keys,
          vals |-> [p \in 1..Len(o.keys) |-> IF o.keys[p] = k THEN v ELSE o.vals[p]]]
    ELSE [keys |-> Append(o.keys, k), vals |-> Append(o.vals, v)]

ObjectKeys(o) == o.keys

ObjectGet(o, k) ==
    IF \E p \in 1..Len(o.keys) : o.keys[p] = k
    THEN o.vals[CHOOSE p \in 1..Len(o.keys) : o.keys[p] = k]
    ELSE UndefinedV

RECURSIVE RowObjectUpTo(_, _, _)
RowObjectUpTo(fields, columnValues, n) ==
    IF n = 0 THEN EmptyObject
    ELSE ObjectSet(RowObjectUpTo(fields, columnValues, n - 1),
                   fields[n].name, columnValues[n])

(* the row object for the column values of one row *)
RowObject(fields, columnValues) == RowObjectUpTo(fields, columnValues, Len(fields))

(* row[Object.keys(row)[0]] *)
FirstKeyValue(row) ==
    IF Len(ObjectKeys(row)) = 0 THEN UndefinedV
    ELSE ObjectGet(row, ObjectKeys(row)[1])

----------------------------------------------------------------------------
(* helpers.executeRunQuery: the driver's answer, with a rejection classified
   by its error code *)
SqlConstraintError(msg, constraintName, inner) ==
    [name |-> "SqlConstraintError", message |-> msg,
     constraintName |-> constraintName, innerError |-> inner]
SqlPermissionError(msg, inner) ==
    [name |-> "SqlPermissionError", message |-> msg, innerError |-> inner]
SqlSyntaxError(msg, inner) ==
    [name |-> "SqlSyntaxError", message |-> msg, innerError |-> inner]

ConstraintCodes ==
    {"21000", "23000", "23001", "23502", "23503", "23505", "23514", "23P01",
     "27000", "40002", "42000", "44000"}

(* wrapErrorIfNeeded of @zxteam/errors: an Error is kept, anything else is
   wrapped into one *)
wrapErrorIfNeeded(reason) ==
    IF reason.t = "Error" THEN reason ELSE [t |-> "Error", wrapped |-> reason]

IsObject(reason) == reason.t \in {"Error", "Object"}

executeRunQuery_AnonymousConstraint(driverReply, sqlText) ==
    IF driverReply.ok THEN Ret(driverReply)
    ELSE
        LET reason == driverReply.reason
            err == wrapErrorIfNeeded(reason)
            msg == [query |-> sqlText, reason |-> err]
        IN  IF ~IsObject(reason)
            THEN Throw(TypeError([text |-> "Cannot use 'in' operator"]))
            ELSE IF reason.code \in ConstraintCodes
            THEN Throw(SqlConstraintError(msg, StrV(<<"?", "?", "?">>), err))
            ELSE IF reason.code = "42501" THEN Throw(SqlPermissionError(msg, err))
            ELSE IF reason.code \in {"42000", "42601"} THEN Throw(SqlSyntaxError(msg, err))
            ELSE Throw(SqlError(msg, err))

executeRunQuery(driverReply, sqlText) ==
    IF driverReply.ok THEN Ret(driverReply)
    ELSE
        LET reason == driverReply.reason
            err == wrapErrorIfNeeded(reason)
            msg == [query |-> sqlText, reason |-> err]
        IN  IF ~IsObject(reason)
            THEN Throw(TypeError([text |-> "Cannot use 'in' operator"]))
            ELSE IF reason.code \in ConstraintCodes
            THEN Throw(SqlConstraintError(msg,
                    IF reason.constraint.t = "string" THEN reason.constraint
                    ELSE StrV(<<"?", "?", "?">>), err))
            ELSE IF reason.code = "42501" THEN Throw(SqlPermissionError(msg, err))
            ELSE IF reason.code \in {"42000", "42601"} THEN Throw(SqlSyntaxError(msg, err))
            ELSE Throw(SqlError(msg, err))

----------------------------------------------------------------------------
(* PostgresSqlResultRecord *)
PostgresSqlResultRecord_NoCountCheck(fieldsData, fieldsInfo) ==
    Ret([t |-> "Record", _fieldsData |-> fieldsData, _fieldsInfo |-> fieldsInfo])
PostgresSqlResultRecord(fieldsData, fieldsInfo) ==
    IF Len(ObjectKeys(fieldsData)) # Len(fieldsInfo)
    THEN Throw(InternalError([text |-> "Fields count is not equal to data columns"]))
    ELSE Ret([t |-> "Record", _fieldsData |-> fieldsData, _fieldsInfo |-> fieldsInfo])

(* rows.map(row => new PostgresSqlResultRecord(row, fields)): the first
   constructor that throws ends the map *)
MapRecords(rows, fields) ==
    IF \E r \in 1..Len(rows) : PostgresSqlResultRecord(rows[r], fields).kind = "throw"
    THEN PostgresSqlResultRecord(
            rows[CHOOSE r \in 1..Len(rows) :
                    /\ PostgresSqlResultRecord(rows[r], fields).kind = "throw"
                    /\ \A q \in 1..(r - 1) :
                          PostgresSqlResultRecord(rows[q], fields).kind = "return"],
            fields)
    ELSE Ret(ArrayV([r \in 1..Len(rows) |-> PostgresSqlResultRecord(rows[r], fields).value]))

----------------------------------------------------------------------------
(* PostgresSqlStatement: the single-set operations.  Each takes the driver's
   answer to the one db.query it sends. *)
StatementSql == [sql |-> "statement", cursor |-> NullV]

DataTypeIDOfUndefined == Throw(TypeError([text |-> "Cannot read property 'dataTypeID' of undefined"]))

Op(name, text) == [op |-> name, text |-> text]

execute(driverReply) ==
    LET run == executeRunQuery(driverReply, StatementSql)
    IN  IF run.kind = "throw" THEN run ELSE Ret(UndefinedV)

executeQuery(driverReply) ==
    LET run == executeRunQuery(driverReply, StatementSql)
        rows == run.value.rows
        fields == run.value.fields
    IN  IF run.kind = "throw" THEN run
        ELSE IF Len(fields) = 0 THEN DataTypeIDOfUndefined
        ELSE IF fields[1].dataTypeID = OID_refcursor
        THEN Throw(InvalidOperationError(Op("executeQuery", "does not support multiset request yet")))
        ELSE IF Len(rows) > 0 /\ ~(fields[1].dataTypeID = OID_void)
        THEN MapRecords(rows, fields)
        ELSE Ret(ArrayV(<<>>))

(* the tail shared by executeScalar and executeScalarOrNull *)
ScalarOfFirstRow(opName, rows, fields) ==
    LET value == FirstKeyValue(rows[1])
    IN  IF value # UndefinedV \/ Len(fields) >= 1
        THEN PostgresData(value, fields[1])
        ELSE Throw(SqlError(Op(opName, "Bad argument"), NoInner))

executeScalar_FieldsFirst(driverReply) ==
    LET run == executeRunQuery(driverReply, StatementSql)
        rows == run.value.rows
        fields == run.value.fields
    IN  IF run.kind = "throw" THEN run
        ELSE IF Len(fields) = 0
        THEN Throw(InvalidOperationError(Op("executeScalar", "SQL query returns no result")))
        ELSE IF fields[1].dataTypeID = OID_refcursor
        THEN Throw(InvalidOperationError(Op("executeScalar", "does not support multiset request yet")))
        ELSE IF Len(rows) = 0
        THEN Throw(SqlNoSuchRecordError(Op("executeScalar", "No record for query")))
        ELSE ScalarOfFirstRow("executeScalar", rows, fields)

executeScalar(driverReply) ==
    LET run == executeRunQuery(driverReply, StatementSql)
        rows == run.value.rows
        fields == run.value.fields
    IN  IF run.kind = "throw" THEN run
        ELSE IF Len(rows) = 0
        THEN Throw(SqlNoSuchRecordError(Op("executeScalar", "No record for query")))
        ELSE IF Len(fields) = 0
        THEN Throw(InvalidOperationError(Op("executeScalar", "SQL query returns no result")))
        ELSE IF fields[1].dataTypeID = OID_refcursor
        THEN Throw(InvalidOperationError(Op("executeScalar", "does not support multiset request yet")))
        ELSE ScalarOfFirstRow("executeScalar", rows, fields)

executeScalarOrNull(driverReply) ==
    LET run == executeRunQuery(driverReply, StatementSql)
        rows == run.value.rows
        fields == run.value.fields
    IN  IF run.kind = "throw" THEN run
        ELSE IF Len(rows) > 0
        THEN IF Len(fields) = 0 THEN DataTypeIDOfUndefined
             ELSE IF fields[1].dataTypeID = OID_refcursor
             THEN Throw(InvalidOperationError(Op("executeScalarOrNull", "does not support multiset request yet")))
             ELSE ScalarOfFirstRow("executeScalarOrNull", rows, fields)
        ELSE Ret(NullV)

executeSingle_FirstOfMany(driverReply) ==
    LET run == executeRunQuery(driverReply, StatementSql)
        rows == run.value.rows
        fields == run.value.fields
    IN  IF run.kind = "throw" THEN run
        ELSE IF Len(fields) = 0
        THEN Throw(InvalidOperationError(Op("executeSingle", "SQL query returns no result")))
        ELSE IF fields[1].dataTypeID = OID_refcursor
        THEN Throw(InvalidOperationError(Op("executeSingle", "does not support multi request")))
        ELSE IF Len(rows) = 0
        THEN Throw(SqlNoSuchRecordError(Op("executeSingle", "No record for query")))
        ELSE IF Len(rows) >= 1 /\ ~(fields[1].dataTypeID = OID_void)
        THEN PostgresSqlResultRecord(rows[1], fields)
        ELSE Throw(InvalidOperationError(Op("executeSingle", "SQL query returns non-single result")))

executeSingle(driverReply) ==
    LET run == executeRunQuery(driverReply, StatementSql)
        rows == run.value.rows
        fields == run.value.fields
    IN  IF run.kind = "throw" THEN run
        ELSE IF Len(fields) = 0
        THEN Throw(InvalidOperationError(Op("executeSingle", "SQL query returns no result")))
        ELSE IF fields[1].dataTypeID = OID_refcursor
        THEN Throw(InvalidOperationError(Op("executeSingle", "does not support multi request")))
        ELSE IF Len(rows) = 0
        THEN Throw(SqlNoSuchRecordError(Op("executeSingle", "No record for query")))
        ELSE IF Len(rows) = 1 /\ ~(fields[1].dataTypeID = OID_void)
        THEN PostgresSqlResultRecord(rows[1], fields)
        ELSE Throw(InvalidOperationError(Op("executeSingle", "SQL query returns non-single result")))

executeSingleOrNull(driverReply) ==
    LET run == executeRunQuery(driverReply, StatementSql)
        rows == run.value.rows
        fields == run.value.fields
    IN  IF run.kind = "throw" THEN run
        ELSE IF Len(fields) = 0
        THEN Throw(InvalidOperationError(Op("executeSingleOrNull", "SQL query returns no result")))
        ELSE IF fields[1].dataTypeID = OID_refcursor
        THEN Throw(InvalidOperationError(Op("executeSingleOrNull", "does not support multi request")))
        ELSE IF Len(rows) = 0 THEN Ret(NullV)
        ELSE IF Len(rows) = 1 /\ ~(fields[1].dataTypeID = OID_void)
        THEN PostgresSqlResultRecord(rows[1], fields)
        ELSE Throw(InvalidOperationError(Op("executeSingleOrNull", "SQL query returns non-single result")))

----------------------------------------------------------------------------
(* Inputs of the value-cell specification *)
FieldNames == {"a", "b"}
DataTypeIDs ==
    {OID_bool, OID_int4, OID_timestamp, OID_timestamptz, OID_numeric,
     OID_refcursor, OID_void, OID_jsonb}
FieldDefs == [name : FieldNames, dataTypeID : DataTypeIDs]

RawValues ==
    {NullV, BoolV(TRUE), BoolV(FALSE), NumV(10), NumV(15), NaNV,
     StrV(<<"4", "2">>), StrV(<<"1", ".", "5">>), StrV(<<"a">>),
     DateV(0), DateV(86400000), BufferV(<<1, 2>>),
     ObjectV("doc"), ArrayV(<<>>)}

Cells ==
    {PostgresData(v, fi).value : v \in RawValues, fi \in FieldDefs}

NoCell == [_postgresValue |-> UndefinedV, _fi |-> [name |-> "", dataTypeID |-> 0]]
NoReply == [ok |-> FALSE, reason |-> [t |-> "none"]]

DataIdle  == data = NoCell /\ caller = "none" /\ got = Idle
ExecIdle  == reply = NoReply /\ op = "none" /\ ret = Idle
MultiIdle ==
    /\ pc = "off" /\ token = FALSE /\ stmtReply = NoReply
    /\ cursors = <<>> /\ sent = <<>> /\ answered = <<>> /\ handles = <<>>
    /\ idx = 0 /\ friendlyResult = <<>> /\ caught = Idle /\ mret = Idle

FactoryIdle ==
    factoryState = "off" /\ pool = [out |-> {}, ends |-> 0] /\ task = <<>>
TripIdle   == zone = UTC /\ args = <<>> /\ stored = <<>>
RecordIdle == rec = Idle /\ key = NullV /\ cell = Idle
ProvIdle   == prov = [off |-> TRUE]
MigIdle    == db = [off |-> TRUE] /\ mig = Idle /\ sources = {}
LazyIdle   == lazy = [off |-> TRUE]

InitData ==
    /\ data \in Cells
    /\ caller = "none"
    /\ got = Idle
    /\ ExecIdle
    /\ MultiIdle
    /\ FactoryIdle
    /\ TripIdle /\ RecordIdle /\ ProvIdle /\ MigIdle /\ LazyIdle

(* one read of one accessor of the cell *)
ReadAccessor ==
    /\ caller = "none"
    /\ data # NoCell
    /\ \E a \in Accessors :
        /\ caller' = a
        /\ got' = Access(a, data)
    /\ UNCHANGED <<data, execVars, multiVars, factoryVars, laterVars>>

NextData == ReadAccessor
SpecData == InitData /\ [][NextData]_vars

----------------------------------------------------------------------------
(* Inputs of the single-set specification: every driver answer within the
   bounds.  Repeated column names, results without columns, cursor and void
   first columns are all among them. *)
ExecDataTypeIDs == {OID_int4, OID_refcursor, OID_void}
ExecFieldDefs   == [name : FieldNames, dataTypeID : ExecDataTypeIDs]
ColumnValues    == {NumV(10), NumV(20)}

(* the operations look at the type tag of the first field only: the first
   field takes every tag, the further ones are int4 columns of every name *)
FieldSeqs ==
    UNION {{fs \in [1..k -> ExecFieldDefs] :
                \A p \in 2..k : fs[p].dataTypeID = OID_int4} : k \in 0..MaxFields}

(* the column values of the rows as the server sent them, row by row *)
WireRows(fields) ==
    UNION {[1..n -> [1..Len(fields) -> ColumnValues]] : n \in 0..MaxRows}

(* the result the driver resolves db.query with; wire is what it was parsed
   from and is not visible to the code *)
QueryResult(fields, wire) ==
    [ok |-> TRUE,
     rows |-> [r \in 1..Len(wire) |-> RowObject(fields, wire[r])],
     fields |-> fields,
     wire |-> wire]

OkReplies ==
    UNION {{QueryResult(fs, w) : w \in WireRows(fs)} : fs \in FieldSeqs}

RejectionReasons ==
    {[t |-> "Error", code |-> c, constraint |-> k] :
        c \in {"23503", "23505", "42501", "42601", "42000", "08006", "none"},
        k \in {StrV(<<"u", "q">>), UndefinedV}}
    \cup {[t |-> "string", s |-> "boom"]}
Rejections == {[ok |-> FALSE, reason |-> r] : r \in RejectionReasons}

InitExec ==
    /\ reply \in OkReplies \cup Rejections
    /\ op = "none"
    /\ ret = Idle
    /\ DataIdle
    /\ MultiIdle
    /\ FactoryIdle
    /\ TripIdle /\ RecordIdle /\ ProvIdle /\ MigIdle /\ LazyIdle

Ran(opName, outcome) ==
    /\ op = "none"
    /\ reply # NoReply
    /\ op' = opName
    /\ ret' = outcome
    /\ UNCHANGED <<reply, dataVars, multiVars, factoryVars, laterVars>>

RunExecute             == Ran("execute", execute(reply))
RunExecuteQuery        == Ran("executeQuery", executeQuery(reply))
RunExecuteScalar       == Ran("executeScalar", executeScalar(reply))
RunExecuteScalarOrNull == Ran("executeScalarOrNull", executeScalarOrNull(reply))
RunExecuteSingle       == Ran("executeSingle", executeSingle(reply))
RunExecuteSingleOrNull == Ran("executeSingleOrNull", executeSingleOrNull(reply))

NextExec ==
    \/ RunExecute
    \/ RunExecuteQuery
    \/ RunExecuteScalar
    \/ RunExecuteScalarOrNull
    \/ RunExecuteSingle
    \/ RunExecuteSingleOrNull
SpecExec == InitExec /\ [][NextExec]_vars

----------------------------------------------------------------------------
(* PostgresSqlStatement.executeQueryMultiSets, one step per awaited driver
   call.  The token can be cancelled by its owner between any two steps. *)
BeginSql    == [sql |-> "BEGIN TRANSACTION", cursor |-> NullV]
CommitSql   == [sql |-> "COMMIT", cursor |-> NullV]
RollbackSql == [sql |-> "ROLLBACK", cursor |-> NullV]
FetchSql(handle) == [sql |-> "FETCH ALL IN", cursor |-> handle]

AggregateError(errors) == [name |-> "AggregateError", innerErrors |-> errors]

(* helpers.parsingValue: the first key's value of every row *)
parsingValue(res) == [r \in 1..Len(res.rows) |-> FirstKeyValue(res.rows[r])]

PushResult_Front(friendly, records) == <<records>> \o friendly

(* friendlyResult.push(...) *)
PushResult(friendly, records) == Append(friendly, records)

(* the connection failing under a query *)
ConnectionFailure == [t |-> "Error", code |-> "08006", constraint |-> UndefinedV]
Rejected == [ok |-> FALSE, reason |-> ConnectionFailure]
CommandComplete == QueryResult(<<>>, <<>>)

(* cursor handles the statement can return and what the server holds
   under each *)
H1 == StrV(<<"c", "1">>)
H2 == StrV(<<"c", "2">>)
H3 == StrV(<<"c", "3">>)
CursorHandles == {H1, H2, H3}

IntField(n) == [name |-> n, dataTypeID |-> OID_int4]
Cursor(fields, wire) == [fields |-> fields, wire |-> wire]

CursorStores ==
    {[h \in CursorHandles |->
        CASE h = H1 -> Cursor(<<IntField("a")>>, w1)
          [] h = H2 -> Cursor(<<IntField("a"), IntField("b")>>, <<<<NumV(10), NumV(20)>>>>)
          [] h = H3 -> Cursor(<<IntField("a"), IntField("a")>>, <<<<NumV(10), NumV(20)>>>>)] :
     w1 \in WireRows(<<IntField("a")>>)}

HandleField == [name |-> "sp_multi_fetch", dataTypeID |-> OID_refcursor]

StatementReplies ==
    {QueryResult(<<HandleField>>, w) :
        w \in UNION {[1..n -> [1..1 -> CursorHandles]] : n \in 0..MaxHandles}}
    \cup {QueryResult(<<IntField("a")>>, <<<<NumV(10)>>>>),
          QueryResult(<<>>, <<>>),
          [ok |-> FALSE, reason |-> [t |-> "Error", code |-> "42601", constraint |-> UndefinedV]]}

InitMulti ==
    /\ pc = "start"
    /\ token = FALSE
    /\ stmtReply \in StatementReplies
    /\ cursors \in CursorStores
    /\ sent = <<>>
    /\ answered = <<>>
    /\ handles = <<>>
    /\ idx = 0
    /\ friendlyResult = <<>>
    /\ caught = Idle
    /\ mret = Idle
    /\ DataIdle
    /\ ExecIdle
    /\ FactoryIdle
    /\ TripIdle /\ RecordIdle /\ ProvIdle /\ MigIdle /\ LazyIdle

(* the owner of the token requests cancellation *)
Cancel ==
    /\ pc \notin {"off", "done"}
    /\ token = FALSE
    /\ token' = TRUE
    /\ UNCHANGED <<pc, stmtReply, cursors, sent, answered, handles, idx,
                   friendlyResult, caught, mret, dataVars, execVars, factoryVars, laterVars>>

Answered(a) == Append(answered, [reply |-> a, cancelled |-> token])

(* the call itself, up to the first await: BEGIN is sent *)
MultiCall ==
    /\ pc = "start"
    /\ pc' = "begin"
    /\ sent' = Append(sent, BeginSql)
    /\ UNCHANGED <<token, stmtReply, cursors, answered, handles, idx,
                   friendlyResult, caught, mret, dataVars, execVars, factoryVars, laterVars>>

(* catch (e): ROLLBACK is sent *)
Catch(e) ==
    /\ caught' = Throw(e)
    /\ sent' = Append(sent, RollbackSql)
    /\ pc' = "rollback"

(* BEGIN answered; a failure of BEGIN is outside the try block *)
OnBegin ==
    /\ pc = "begin"
    /\ \E a \in {CommandComplete, Rejected} :
        LET run == executeRunQuery(a, BeginSql)
        IN  /\ answered' = Answered(a)
            /\ IF run.kind = "throw"
               THEN mret' = run /\ pc' = "done" /\ UNCHANGED <<sent, caught>>
               ELSE IF token
               THEN Catch(CancelledError) /\ UNCHANGED mret
               ELSE /\ sent' = Append(sent, StatementSql)
                    /\ pc' = "stmt"
                    /\ UNCHANGED <<mret, caught>>
    /\ UNCHANGED <<token, stmtReply, cursors, handles, idx, friendlyResult,
                   dataVars, execVars, factoryVars, laterVars>>

(* the statement answered: cancellation check, shape check, first FETCH or,
   without handles, COMMIT *)
OnStatement ==
    /\ pc = "stmt"
    /\ LET run == executeRunQuery(stmtReply, StatementSql)
           fetchs == parsingValue(run.value)
       IN  /\ answered' = Answered(stmtReply)
           /\ IF run.kind = "throw"
              THEN Catch(run.error) /\ UNCHANGED <<handles, idx>>
              ELSE IF token
              THEN Catch(CancelledError) /\ UNCHANGED <<handles, idx>>
              ELSE IF Len(run.value.fields) = 0
              THEN Catch(DataTypeIDOfUndefined.error) /\ UNCHANGED <<handles, idx>>
              ELSE IF run.value.fields[1].dataTypeID # OID_refcursor
              THEN /\ Catch(InvalidOperationError(
                          Op("executeQueryMultiSets", "cannot execute this script")))
                   /\ UNCHANGED <<handles, idx>>
              ELSE /\ handles' = fetchs
                   /\ idx' = 1
                   /\ sent' = Append(sent, IF Len(fetchs) = 0 THEN CommitSql
                                           ELSE FetchSql(fetchs[1]))
                   /\ pc' = IF Len(fetchs) = 0 THEN "commit" ELSE "fetch"
                   /\ UNCHANGED caught
    /\ UNCHANGED <<token, stmtReply, cursors, friendlyResult, mret,
                   dataVars, execVars, factoryVars, laterVars>>

(* FETCH ALL IN handles[idx] answered: the server hands over what is left
   in the cursor; then cancellation check, records, next FETCH or COMMIT *)
OnFetch ==
    /\ pc = "fetch"
    /\ LET h == handles[idx]
       IN \E a \in {QueryResult(cursors[h].fields, cursors[h].wire), Rejected} :
        LET run == executeRunQuery(a, FetchSql(h))
            records == MapRecords(run.value.rows, run.value.fields)
        IN  /\ answered' = Answered(a)
            /\ cursors' = IF a.ok THEN [cursors EXCEPT ![h].wire = <<>>] ELSE cursors
            /\ IF run.kind = "throw"
               THEN Catch(run.error) /\ UNCHANGED <<idx, friendlyResult>>
               ELSE IF token
               THEN Catch(CancelledError) /\ UNCHANGED <<idx, friendlyResult>>
               ELSE IF records.kind = "throw"
               THEN Catch(records.error) /\ UNCHANGED <<idx, friendlyResult>>
               ELSE /\ friendlyResult' = PushResult(friendlyResult, records.value)
                    /\ idx' = idx + 1
                    /\ sent' = Append(sent, IF idx < Len(handles)
                                            THEN FetchSql(handles[idx + 1])
                                            ELSE CommitSql)
                    /\ pc' = IF idx < Len(handles) THEN "fetch" ELSE "commit"
                    /\ UNCHANGED caught
    /\ UNCHANGED <<token, stmtReply, handles, mret, dataVars, execVars, factoryVars, laterVars>>

(* COMMIT answered *)
OnCommit ==
    /\ pc = "commit"
    /\ \E a \in {CommandComplete, Rejected} :
        LET run == executeRunQuery(a, CommitSql)
        IN  /\ answered' = Answered(a)
            /\ IF run.kind = "throw"
               THEN Catch(run.error) /\ UNCHANGED mret
               ELSE /\ mret' = Ret(ArrayV(friendlyResult))
                    /\ pc' = "done"
                    /\ UNCHANGED <<sent, caught>>
    /\ UNCHANGED <<token, stmtReply, cursors, handles, idx, friendlyResult,
                   dataVars, execVars, factoryVars, laterVars>>

(* ROLLBACK answered: await executeRunQuery(ROLLBACK); throw e *)
OnRollback ==
    /\ pc = "rollback"
    /\ \E a \in {CommandComplete, Rejected} :
        LET run == executeRunQuery(a, RollbackSql)
        IN  /\ answered' = Answered(a)
            /\ mret' = IF run.kind = "throw" THEN run ELSE caught
            /\ pc' = "done"
    /\ UNCHANGED <<token, stmtReply, cursors, sent, handles, idx, friendlyResult,
                   caught, dataVars, execVars, factoryVars, laterVars>>

NextMulti ==
    \/ Cancel
    \/ MultiCall
    \/ OnBegin
    \/ OnStatement
    \/ OnFetch
    \/ OnCommit
    \/ OnRollback
SpecMulti == InitMulti /\ [][NextMulti]_vars

(* One provider used by two callers: executeQueryMultiSets of one statement
   and execute of another statement of the same provider.  execute calls
   db.query on the provider's pgClient whatever else is in progress; the
   connection queues the statement behind the one in flight and runs it
   next.  Its answer is taken in the same step. *)
InitShared ==
    /\ pc = "start"
    /\ token = FALSE
    /\ stmtReply \in StatementReplies
    /\ cursors \in CursorStores
    /\ sent = <<>>
    /\ answered = <<>>
    /\ handles = <<>>
    /\ idx = 0
    /\ friendlyResult = <<>>
    /\ caught = Idle
    /\ mret = Idle
    /\ reply \in {CommandComplete, Rejected}
    /\ op = "none"
    /\ ret = Idle
    /\ DataIdle
    /\ FactoryIdle
    /\ TripIdle /\ RecordIdle /\ ProvIdle /\ MigIdle /\ LazyIdle

NextShared ==
    \/ Cancel
    \/ MultiCall
    \/ OnBegin
    \/ OnStatement
    \/ OnFetch
    \/ OnCommit
    \/ OnRollback
    \/ RunExecute
SpecShared == InitShared /\ [][NextShared]_vars

----------------------------------------------------------------------------
(* PostgresProviderFactory over its pg.Pool.  Every logical caller makes one
   call on the factory (create, usingProvider or usingProviderWithTransaction)
   under its own cancellation token; one step per awaited driver call. *)
MaxCallers == 2
PoolMax == 2

NoTask ==
    [kind |-> "none", pc |-> "idle", token |-> FALSE,
     tokenAtCall |-> FALSE, calledIn |-> "none",
     client |-> 0, acquired |-> 0, releases |-> 0, disposed |-> FALSE,
     stmt |-> "none", sent |-> <<>>, answered |-> <<>>, usedReleased |-> FALSE,
     wres |-> Idle, caught |-> Idle, result |-> Idle]

(* the driver's own error, as pool.connect() and pgClient.query() reject *)
DriverError(reason) == [name |-> "error", message |-> reason]

(* the SQL text of a query the factory sends itself *)
Sql(text) == [sql |-> text, cursor |-> NullV]

statement_ArgumentFirst(disposed, sql) ==
    IF sql = "" THEN Throw(ArgumentError("sql"))
    ELSE IF disposed
    THEN Throw(InternalError([text |-> "Wrong operation on disposed object"]))
    ELSE Ret([t |-> "Statement", sql |-> Sql(sql)])

(* PostgresSqlProvider.statement: verifyNotDisposed, the empty-text test,
   new PostgresSqlStatement(this, sql) *)
statement(disposed, sql) ==
    IF disposed
    THEN Throw(InternalError([text |-> "Wrong operation on disposed object"]))
    ELSE IF sql = "" THEN Throw(ArgumentError("sql"))
    ELSE Ret([t |-> "Statement", sql |-> Sql(sql)])


verifyInitializedAndNotDisposed_Skip(state) == TRUE

(* Initable.verifyInitializedAndNotDisposed: passes on an initialised
   factory that is neither disposing nor disposed *)
verifyInitializedAndNotDisposed(state) == state = "initialized"

dispose_Again(disposed) == TRUE

(* Disposable.dispose / Initable.dispose: onDispose runs on the first call
   only *)
dispose(disposed) == ~disposed

connect_AnyClient(out) == 1..PoolMax

(* pg.Pool.connect: the clients the pool can hand out, none while all of
   them are checked out *)
connect(out) == (1..PoolMax) \ out

(* pgClient.release() *)
release(r) == [r EXCEPT !.releases = @ + 1]
Released(r) == [pool EXCEPT !.out = @ \ {r.client}]

(* PostgresSqlProvider.dispose: onDispose calls the disposer, which releases
   the client *)
ProviderDispose(r) ==
    IF dispose(r.disposed) THEN [release(r) EXCEPT !.disposed = TRUE] ELSE r
PoolOnDispose(r) == IF dispose(r.disposed) THEN Released(r) ELSE pool

(* the async function settles *)
Settle(r, outcome) == [r EXCEPT !.pc = "done", !.result = outcome]

Send(r, sqlText, at) == [r EXCEPT !.sent = Append(@, sqlText), !.pc = at]
Answer(r, ok) == [r EXCEPT !.answered = Append(@, ok)]

InitFactory ==
    /\ factoryState = "constructed"
    /\ pool = [out |-> {}, ends |-> 0]
    /\ task = [t \in 1..MaxCallers |-> NoTask]
    /\ DataIdle
    /\ ExecIdle
    /\ MultiIdle
    /\ TripIdle /\ RecordIdle /\ ProvIdle /\ MigIdle /\ LazyIdle

(* Initable.init; onInit does nothing *)
FactoryInit ==
    /\ factoryState = "constructed"
    /\ factoryState' = "initialized"
    /\ UNCHANGED <<pool, task, dataVars, execVars, multiVars, laterVars>>

(* Initable.dispose; onDispose ends the pool and swallows its failure *)
FactoryDispose ==
    /\ factoryState # "off"
    /\ IF dispose(factoryState = "disposed")
       THEN /\ factoryState' = "disposed"
            /\ pool' = [pool EXCEPT !.ends = @ + 1]
       ELSE UNCHANGED <<factoryState, pool>>
    /\ UNCHANGED <<task, dataVars, execVars, multiVars, laterVars>>

(* the owner of the token requests cancellation *)
CancelCall(t) ==
    /\ task[t].pc \in {"idle", "connect", "worker"}
    /\ ~task[t].token
    /\ task' = [task EXCEPT ![t].token = TRUE]
    /\ UNCHANGED <<factoryState, pool, dataVars, execVars, multiVars, laterVars>>

(* the first caller makes any of the three calls; the callers beside it
   hold providers of their own, which they got from create *)
Calls(t) ==
    IF t = 1 THEN {"create", "usingProvider", "usingProviderWithTransaction"}
    ELSE {"create"}

(* create(), also as the first step of usingProvider and of
   usingProviderWithTransaction: the state check, then pool.connect() *)
Call(t) ==
    /\ task[t].pc = "idle"
    /\ \E k \in Calls(t) :
        LET r == [task[t] EXCEPT !.kind = k, !.tokenAtCall = task[t].token,
                                 !.calledIn = factoryState]
        IN  task' = [task EXCEPT ![t] =
                IF verifyInitializedAndNotDisposed(factoryState)
                THEN [r EXCEPT !.pc = "connect"]
                ELSE Settle(r, Throw(InternalError(
                        [text |-> "Wrong operation on non-initialized or disposed object"])))]
    /\ UNCHANGED <<factoryState, pool, dataVars, execVars, multiVars, laterVars>>

(* pool.connect() answered; with a client: the cancellation check, then the
   first session setup query *)
OnConnect(t) ==
    /\ task[t].pc = "connect"
    /\ \/ /\ task' = [task EXCEPT ![t] =
                Settle(@, Throw(DriverError(ConnectionFailure)))]
          /\ UNCHANGED pool
       \/ \E c \in connect(pool.out) :
            LET r == [task[t] EXCEPT !.client = c, !.acquired = @ + 1]
            IN  IF r.token
                THEN /\ task' = [task EXCEPT ![t] =
                            Settle(release(r), Throw(CancelledError))]
                     /\ pool' = Released(r)
                ELSE /\ task' = [task EXCEPT ![t] =
                            Send(r, Sql("SET search_path TO"), "searchPath")]
                     /\ pool' = [pool EXCEPT !.out = @ \cup {c}]
    /\ UNCHANGED <<factoryState, dataVars, execVars, multiVars, laterVars>>

(* a session setup query answered: the next one, or the provider; a failure
   releases the client and is rethrown *)
OnSessionSetup(t) ==
    /\ task[t].pc \in {"searchPath", "timeZone"}
    /\ \E ok \in BOOLEAN :
        LET r == Answer(task[t], ok)
        IN  IF ~ok
            THEN /\ task' = [task EXCEPT ![t] =
                        Settle(release(r), Throw(DriverError(ConnectionFailure)))]
                 /\ pool' = Released(r)
            ELSE /\ task' = [task EXCEPT ![t] =
                        IF r.pc = "searchPath" THEN Send(r, Sql("SET TIME ZONE '00:00'"), "timeZone")
                        ELSE IF r.kind = "create"
                        THEN [r EXCEPT !.pc = "owned",
                                       !.result = Ret([t |-> "SqlProvider", pgClient |-> r.client])]
                        ELSE IF r.kind = "usingProvider" THEN [r EXCEPT !.pc = "worker"]
                        ELSE Send(r, BeginSql, "begin")]
                 /\ UNCHANGED pool
    /\ UNCHANGED <<factoryState, dataVars, execVars, multiVars, laterVars>>

(* PostgresSqlProvider.statement on a provider the caller got from create *)
Statement(t) ==
    /\ task[t].pc = "owned"
    /\ task[t].stmt = "none"
    /\ task' = [task EXCEPT ![t].stmt =
            IF statement(task[t].disposed, "statement").kind = "return"
            THEN "made" ELSE "refused"]
    /\ UNCHANGED <<factoryState, pool, dataVars, execVars, multiVars, laterVars>>

(* an executor operation of that Statement object: executeRunQuery on
   this._owner.pgClient *)
ExecuteStatement(t) ==
    /\ task[t].pc = "owned"
    /\ task[t].stmt = "made"
    /\ task' = [task EXCEPT ![t] =
            [Answer(Send(@, StatementSql, "owned"), TRUE) EXCEPT
                !.stmt = "used",
                !.usedReleased = task[t].releases > 0]]
    /\ UNCHANGED <<factoryState, pool, dataVars, execVars, multiVars, laterVars>>

(* the caller disposes the provider it got from create *)
DisposeProvider(t) ==
    /\ task[t].pc = "owned"
    /\ task' = [task EXCEPT ![t] = ProviderDispose(@)]
    /\ pool' = PoolOnDispose(task[t])
    /\ UNCHANGED <<factoryState, dataVars, execVars, multiVars, laterVars>>

(* the worker runs a statement on the provider it was given *)
WorkerStatement(t) ==
    /\ task[t].pc = "worker"
    /\ task[t].stmt = "none"
    /\ task' = [task EXCEPT ![t] =
            [Answer(Send(@, StatementSql, "worker"), TRUE) EXCEPT !.stmt = "used"]]
    /\ UNCHANGED <<factoryState, pool, dataVars, execVars, multiVars, laterVars>>

Finally_OnSuccessOnly(r, outcome) ==
    Settle(IF outcome.kind = "return" THEN ProviderDispose(r) ELSE r, outcome)

(* usingProvider: try { return await worker(sqlProvider) }
   finally { await sqlProvider.dispose() } *)
Finally(r, outcome) == Settle(ProviderDispose(r), outcome)

(* what a worker can end with: a value, a failure of its own, or Cancelled
   when it finds its token cancelled *)
WorkerOutcomes(r) ==
    {Ret(NumV(10)), Throw(InternalError([text |-> "worker"]))}
    \cup (IF r.token THEN {Throw(CancelledError)} ELSE {})

(* the worker ends.  usingProvider: the finally block.
   usingProviderWithTransaction: COMMIT after a result, the catch block with
   ROLLBACK after a failure *)
WorkerEnds(t) ==
    /\ task[t].pc = "worker"
    /\ \E o \in WorkerOutcomes(task[t]) :
        LET r == [task[t] EXCEPT !.wres = o]
        IN  IF r.kind = "usingProvider"
            THEN /\ task' = [task EXCEPT ![t] = Finally(r, o)]
                 /\ pool' = PoolOnDispose(r)
            ELSE /\ task' = [task EXCEPT ![t] =
                        IF o.kind = "return" THEN Send(r, Sql("COMMIT TRANSACTION"), "commit")
                        ELSE Send([r EXCEPT !.caught = o], Sql("ROLLBACK TRANSACTION"), "rollback")]
                 /\ UNCHANGED pool
    /\ UNCHANGED <<factoryState, dataVars, execVars, multiVars, laterVars>>

(* BEGIN TRANSACTION answered; its failure is outside the try block *)
OnBeginTransaction(t) ==
    /\ task[t].pc = "begin"
    /\ \E a \in {CommandComplete, Rejected} :
        LET r == Answer(task[t], a.ok)
            run == executeRunQuery(a, BeginSql)
        IN  IF run.kind = "throw"
            THEN /\ task' = [task EXCEPT ![t] = Finally(r, run)]
                 /\ pool' = PoolOnDispose(r)
            ELSE /\ task' = [task EXCEPT ![t] = [r EXCEPT !.pc = "worker"]]
                 /\ UNCHANGED pool
    /\ UNCHANGED <<factoryState, dataVars, execVars, multiVars, laterVars>>

OnCommitTransaction_NoRollback(t) ==
    /\ task[t].pc = "commit"
    /\ \E a \in {CommandComplete, Rejected} :
        LET r == Answer(task[t], a.ok)
            run == executeRunQuery(a, Sql("COMMIT TRANSACTION"))
        IN  /\ task' = [task EXCEPT ![t] =
                    Finally(r, IF run.kind = "throw" THEN run ELSE r.wres)]
            /\ pool' = PoolOnDispose(r)
    /\ UNCHANGED <<factoryState, dataVars, execVars, multiVars, laterVars>>

(* COMMIT TRANSACTION answered; its failure is caught like the worker's *)
OnCommitTransaction(t) ==
    /\ task[t].pc = "commit"
    /\ \E a \in {CommandComplete, Rejected} :
        LET r == Answer(task[t], a.ok)
            run == executeRunQuery(a, Sql("COMMIT TRANSACTION"))
        IN  IF run.kind = "throw"
            THEN /\ task' = [task EXCEPT ![t] =
                        Send([r EXCEPT !.caught = run], Sql("ROLLBACK TRANSACTION"), "rollback")]
                 /\ UNCHANGED pool
            ELSE /\ task' = [task EXCEPT ![t] = Finally(r, r.wres)]
                 /\ pool' = PoolOnDispose(r)
    /\ UNCHANGED <<factoryState, dataVars, execVars, multiVars, laterVars>>

RollbackOutcome_LoseOriginal(e, run) ==
    IF run.kind = "throw" THEN run ELSE e

(* try { ROLLBACK } catch (e2) { throw new AggregateError([e, e2]) }
   throw e *)
RollbackOutcome(e, run) ==
    IF run.kind = "throw" THEN Throw(AggregateError(<<e.error, run.error>>))
    ELSE e

(* ROLLBACK TRANSACTION answered *)
OnRollbackTransaction(t) ==
    /\ task[t].pc = "rollback"
    /\ \E a \in {CommandComplete, Rejected} :
        LET r == Answer(task[t], a.ok)
            run == executeRunQuery(a, Sql("ROLLBACK TRANSACTION"))
        IN  /\ task' = [task EXCEPT ![t] = Finally(r, RollbackOutcome(r.caught, run))]
            /\ pool' = PoolOnDispose(r)
    /\ UNCHANGED <<factoryState, dataVars, execVars, multiVars, laterVars>>

NextFactory ==
    \/ FactoryInit
    \/ FactoryDispose
    \/ \E t \in 1..MaxCallers :
        \/ CancelCall(t)
        \/ Call(t)
        \/ OnConnect(t)
        \/ OnSessionSetup(t)
        \/ Statement(t)
        \/ ExecuteStatement(t)
        \/ DisposeProvider(t)
        \/ WorkerStatement(t)
        \/ WorkerEnds(t)
        \/ OnBeginTransaction(t)
        \/ OnCommitTransaction(t)
        \/ OnRollbackTransaction(t)
SpecFactory == InitFactory /\ [][NextFactory]_vars

(* The two places that open a transaction themselves: a call of
   executeQueryMultiSets on a statement, or the calls of one caller on the
   factory. *)
InitTransactions == InitMulti \/ InitFactory

NextTransactions ==
    \/ Cancel
    \/ MultiCall
    \/ OnBegin
    \/ OnStatement
    \/ OnFetch
    \/ OnCommit
    \/ OnRollback
    \/ FactoryInit
    \/ FactoryDispose
    \/ factoryState # "off" /\ CancelCall(1)
    \/ factoryState # "off" /\ Call(1)
    \/ factoryState # "off" /\ OnConnect(1)
    \/ factoryState # "off" /\ OnSessionSetup(1)
    \/ factoryState # "off" /\ Statement(1)
    \/ factoryState # "off" /\ ExecuteStatement(1)
    \/ factoryState # "off" /\ DisposeProvider(1)
    \/ factoryState # "off" /\ WorkerStatement(1)
    \/ factoryState # "off" /\ WorkerEnds(1)
    \/ factoryState # "off" /\ OnBeginTransaction(1)
    \/ factoryState # "off" /\ OnCommitTransaction(1)
    \/ factoryState # "off" /\ OnRollbackTransaction(1)
SpecTransactions == InitTransactions /\ [][NextTransactions]_vars

----------------------------------------------------------------------------
(* One PostgresSqlProvider in the hands of its caller: statement(sql), the
   provider's dispose, createTempTable and the temporary table's dispose. *)

(* owner.statement(sql).execute(token) under the driver's answer a: what was
   sent and how it ended *)
StatementExecute(p, sql, a) ==
    LET st == statement(p.disposed, sql)
    IN  IF st.kind = "throw" THEN [sent |-> p.sent, run |-> st]
        ELSE [sent |-> Append(p.sent, st.value.sql),
              run  |-> executeRunQuery(a, st.value.sql)]

DropCaught_Rethrow(e) == Throw(e)

(* PostgresTempTable.onDispose, catch (e): nothing is rethrown *)
DropCaught(e) == Ret(UndefinedV)

(* console.error(e), skipped for a CancelledError *)
ConsoleError(log, e) == IF e.name = "CancelledError" THEN log ELSE Append(log, e)

DriverAnswers ==
    {CommandComplete, Rejected,
     [ok |-> FALSE, reason |-> [t |-> "Error", code |-> "42P01", constraint |-> UndefinedV]]}

InitProvider ==
    /\ prov = [disposed |-> FALSE, sent |-> <<>>,
               sql |-> "none", stmt |-> Idle, executed |-> FALSE,
               temp |-> "none", created |-> Idle,
               dropped |-> Idle, ownerGone |-> FALSE, dropAnswer |-> NoReply,
               log |-> <<>>]
    /\ DataIdle /\ ExecIdle /\ MultiIdle /\ FactoryIdle
    /\ TripIdle /\ RecordIdle /\ MigIdle /\ LazyIdle

ProviderFrame ==
    UNCHANGED <<dataVars, execVars, multiVars, factoryVars,
                tripVars, recordVars, migVars, lazy>>

(* the caller asks for a statement *)
CallStatement ==
    /\ prov.stmt = Idle
    /\ \E sql \in {"", "SELECT 1"} :
        prov' = [prov EXCEPT !.sql = sql,
                             !.stmt = statement(prov.disposed, sql)]
    /\ ProviderFrame

(* an executor operation of the Statement object the caller holds *)
CallExecute ==
    /\ prov.stmt.kind = "return"
    /\ ~prov.executed
    /\ prov' = [prov EXCEPT !.executed = TRUE,
                            !.sent = Append(@, prov.stmt.value.sql)]
    /\ ProviderFrame

(* the caller disposes the provider *)
CallDispose ==
    /\ ~prov.disposed
    /\ prov' = [prov EXCEPT !.disposed = TRUE]
    /\ ProviderFrame

(* createTempTable: new PostgresTempTable, then init, whose onInit executes
   CREATE TEMPORARY TABLE *)
CallCreateTempTable ==
    /\ prov.temp = "none"
    /\ \E a \in DriverAnswers :
        LET x == StatementExecute(prov, "CREATE TEMPORARY TABLE", a)
        IN  prov' = [prov EXCEPT
                !.sent = x.sent,
                !.temp = IF x.run.kind = "throw" THEN "failed" ELSE "ready",
                !.created = IF x.run.kind = "throw" THEN x.run
                            ELSE Ret([t |-> "TempTable"])]
    /\ ProviderFrame

(* tempTable.dispose(): onDispose executes DROP TABLE inside try/catch *)
CallDisposeTempTable ==
    /\ prov.temp = "ready"
    /\ \E a \in DriverAnswers :
        LET x == StatementExecute(prov, "DROP TABLE", a)
        IN  prov' = [prov EXCEPT
                !.sent = x.sent,
                !.temp = "disposed",
                !.ownerGone = prov.disposed,
                !.dropAnswer = a,
                !.dropped = IF x.run.kind = "throw" THEN DropCaught(x.run.error)
                            ELSE Ret(UndefinedV),
                !.log = IF x.run.kind = "throw" THEN ConsoleError(prov.log, x.run.error)
                        ELSE prov.log]
    /\ ProviderFrame

NextProvider ==
    \/ CallStatement
    \/ CallExecute
    \/ CallDispose
    \/ CallCreateTempTable
    \/ CallDisposeTempTable
SpecProvider == InitProvider /\ [][NextProvider]_vars

----------------------------------------------------------------------------
(* Statement parameters on their way to the database and back.  The local
   time zone of the process is fixed for a run; a parameter list goes through
   statementArgumentsAdapter and the driver's serialisation into the
   database, a stored value comes back through the driver's parser and an
   accessor of the cell. *)

MaxArgs  == 2
MaxHours == 4

(* the decimal a Financial stands for: sign, digits without the point, and
   the number of digits after the point, trailing zeros dropped *)
RECURSIVE Normal(_, _, _)
Normal(neg, mantissa, fraction) ==
    IF fraction > 0 /\ mantissa % 10 = 0
    THEN Normal(neg, mantissa \div 10, fraction - 1)
    ELSE [neg |-> neg /\ mantissa # 0, mantissa |-> mantissa, fraction |-> fraction]

(* FinancialOperation.parse on a decimal string / fromFloat on a number *)
FinancialValue(f) ==
    IF f.via = "fromFloat"
    THEN Normal(f.of.n10 < 0, IF f.of.n10 < 0 THEN 0 - f.of.n10 ELSE f.of.n10, 1)
    ELSE LET s    == f.of.s
             neg  == Len(s) >= 1 /\ s[1] = "-"
             p0   == IF neg THEN 2 ELSE 1
             nInt == DigitRun(s, p0)
             dot  == p0 + nInt
             nFr  == IF dot <= Len(s) /\ s[dot] = "." THEN DigitRun(s, dot + 1) ELSE 0
             all  == SubSeq(s, p0, dot - 1) \o SubSeq(s, dot + 1, dot + nFr)
         IN  Normal(neg, DigitsValue(all, 1, nInt + nFr), nFr)

RECURSIVE IntDigits(_)
IntDigits(n) ==
    IF n < 10 THEN <<Digits[n + 1]>>
    ELSE Append(IntDigits(n \div 10), Digits[(n % 10) + 1])

RECURSIVE ZeroPad(_, _)
ZeroPad(s, n) == IF Len(s) >= n THEN s ELSE ZeroPad(<<"0">> \o s, n)

(* Financial.toString: the canonical decimal string *)
FinancialToString_NoPadding(f) ==
    LET v == FinancialValue(f)
        d == IntDigits(v.mantissa)
        k == IF Len(d) > v.fraction THEN Len(d) - v.fraction ELSE 0
    IN  (IF v.neg THEN <<"-">> ELSE <<>>)
        \o (IF k = 0 THEN <<"0">> ELSE SubSeq(d, 1, k))
        \o (IF v.fraction = 0 THEN <<>> ELSE <<".">> \o SubSeq(d, k + 1, Len(d)))
FinancialToString(f) ==
    LET v == FinancialValue(f)
        d == ZeroPad(IntDigits(v.mantissa), v.fraction + 1)
        k == Len(d) - v.fraction
    IN  (IF v.neg THEN <<"-">> ELSE <<>>)
        \o SubSeq(d, 1, k)
        \o (IF v.fraction = 0 THEN <<>> ELSE <<".">> \o SubSeq(d, k + 1, Len(d)))

isFinancial(value) == value.t = "Financial"

(* the callback of args.map *)
AdaptValue_KeepFinancial(value) ==
    IF value.t \in {"Financial", "Date", "Array", "Buffer", "Object"}
    THEN IF IsDate(value)
         THEN DateV(value.ms + getTimezoneOffset(value) * 60000)
         ELSE value
    ELSE value
AdaptValue(value) ==
    IF value.t \in {"null", "Financial", "Date", "Array", "Buffer", "Object"}
    THEN IF value # NullV
         THEN IF isFinancial(value) THEN StrV(FinancialToString(value))
              ELSE IF IsDate(value)
                   THEN DateV(value.ms + getTimezoneOffset(value) * 60000)
                   ELSE value
         ELSE value
    ELSE value

statementArgumentsAdapter(a) == [i \in 1..Len(a) |-> AdaptValue(a[i])]

(* the driver's text for a Date parameter: its local wall-clock fields, as
   milliseconds of the wall clock; a TIMESTAMP column keeps them and ignores
   the offset suffix *)
dateToString(d) == d.ms - getTimezoneOffset(d) * 60000

(* what the database keeps of a parameter *)
Store(p) ==
    IF IsDate(p) THEN [t |-> "timestamp", naive |-> dateToString(p)] ELSE p

(* the driver's parser of TIMESTAMP WITHOUT TIME ZONE: new Date(y, m, d, h,
   mi, s, ms), the wall clock read as local time; a wall-clock time that
   exists twice or not at all is read with the offset before the switch *)
parseDate(naive) ==
    LET r1 == naive + zone.before * 60000
        r2 == naive + zone.after * 60000
    IN  IF r1 < 0 THEN r1 ELSE IF r2 >= 0 THEN r2 ELSE r1

(* the cell of a stored value in a fetched row *)
Fetch(c, name) ==
    IF c.t = "timestamp"
    THEN PostgresData(DateV(parseDate(c.naive)), [name |-> name, dataTypeID |-> OID_timestamp])
    ELSE IF c.t = "number"
    THEN PostgresData(c, [name |-> name, dataTypeID |-> OID_int4])
    ELSE PostgresData(c, [name |-> name, dataTypeID |-> OID_numeric])

Zones == {UTC, Zone(-120, -120), Zone(-120, -180), Zone(-180, -120), Zone(300, 240)}

(* whole hours around the zone's switch, in milliseconds *)
Instants == {h * 3600000 : h \in (0 - MaxHours)..MaxHours}

Decimals ==
    {FinancialParse(StrV(<<"4", "2">>)), FinancialParse(StrV(<<"1", ".", "5", "0">>)),
     FinancialParse(StrV(<<"0", ".", "0", "5">>)), FinancialParse(StrV(<<"-", "1", ".", "5">>)),
     FinancialFromFloat(NumV(25))}

Params ==
    {DateV(i) : i \in Instants} \cup Decimals
        \cup {NullV, NumV(150), StrV(<<"a">>), ArrayV(<<NumV(10)>>)}

ParamLists == UNION {[1..n -> Params] : n \in 1..MaxArgs}

InitRoundTrip ==
    /\ zone \in Zones
    /\ args = <<>>
    /\ stored = <<>>
    /\ DataIdle /\ ExecIdle /\ MultiIdle /\ FactoryIdle
    /\ RecordIdle /\ ProvIdle /\ MigIdle /\ LazyIdle

(* statement.execute(token, ...values): the adapted values go to the driver
   and into the database.  args keeps the values given, the values handed to
   the driver, and the position read back (0: none yet) *)
ExecuteWith ==
    /\ args = <<>>
    /\ \E values \in ParamLists :
        LET adapted == statementArgumentsAdapter(values)
        IN  /\ args' = <<values, adapted, 0>>
            /\ stored' = [i \in 1..Len(adapted) |-> Store(adapted[i])]
    /\ UNCHANGED <<zone, dataVars, execVars, multiVars, factoryVars,
                   recordVars, prov, migVars, lazy>>

(* record.get(i).<accessor> on the row fetched back *)
ReadBack ==
    /\ args # <<>>
    /\ args[3] = 0
    /\ \E i \in 1..Len(stored), a \in {"asDate", "asNullableDate", "asFinancial", "asString"} :
        LET c == Fetch(stored[i], "a").value
        IN  /\ args' = [args EXCEPT ![3] = i]
            /\ data' = c
            /\ caller' = a
            /\ got' = Access(a, c)
    /\ UNCHANGED <<zone, stored, execVars, multiVars, factoryVars,
                   recordVars, prov, migVars, lazy>>

NextRoundTrip ==
    \/ ExecuteWith
    \/ ReadBack

SpecRoundTrip == InitRoundTrip /\ [][NextRoundTrip]_vars

----------------------------------------------------------------------------
(* A Result Record and its two lookups.  rec is the record made for a row
   the driver delivered: the field descriptors of the result, the outcome of
   the constructor, and the record's cached name map. *)

(* a function object; its name property is the function's name *)
FunctionV(name) == [t |-> "function", name |-> name]

(* members every plain object inherits from Object.prototype *)
ObjectPrototype == {"toString", "constructor"}
Inherited(k) == FunctionV(IF k = "constructor" THEN "Object" ELSE k)

(* k in o *)
In(o, k) == (\E p \in 1..Len(o.keys) : o.keys[p] = k) \/ k \in ObjectPrototype

(* o[k] *)
Lookup(o, k) ==
    IF \E p \in 1..Len(o.keys) : o.keys[p] = k THEN ObjectGet(o, k)
    ELSE IF k \in ObjectPrototype THEN Inherited(k)
    ELSE UndefinedV

RECURSIVE nameMapUpTo(_, _)
(* the loop of the nameMap getter over the first n field descriptors *)
nameMapUpTo(fieldsInfo, n) ==
    IF n = 0 THEN Ret(EmptyObject)
    ELSE LET prev == nameMapUpTo(fieldsInfo, n - 1)
         IN  IF prev.kind = "throw" THEN prev
             ELSE IF In(prev.value, fieldsInfo[n].name)
             THEN Throw(InternalError([text |-> "Cannot access SqlResultRecord by name due result set has name duplicates"]))
             ELSE Ret(ObjectSet(prev.value, fieldsInfo[n].name, fieldsInfo[n]))

(* get nameMap(): built on first use, cached in _nameMap *)
nameMap(r) ==
    IF r._nameMap # UndefinedV THEN Ret(r._nameMap)
    ELSE nameMapUpTo(r.made.value._fieldsInfo, Len(r.made.value._fieldsInfo))

(* this._fieldsInfo[index] *)
FieldAt(fieldsInfo, index) ==
    IF IsInteger(index) /\ index.n10 >= 0 /\ index.n10 \div 10 < Len(fieldsInfo)
    THEN fieldsInfo[(index.n10 \div 10) + 1]
    ELSE UndefinedV

getByIndex(r, index) ==
    LET fi == FieldAt(r.made.value._fieldsInfo, index)
    IN  IF fi = UndefinedV THEN Throw(ArgumentError("index"))
        ELSE PostgresData(Lookup(r.made.value._fieldsData, fi.name), fi)

getByName(r, name) ==
    LET nm == nameMap(r)
    IN  IF nm.kind = "throw" THEN nm
        ELSE LET fi == Lookup(nm.value, name)
             IN  IF fi = UndefinedV THEN Throw(ArgumentError("name"))
                 ELSE PostgresData(Lookup(r.made.value._fieldsData, fi.name), fi)

get(r, nameOrIndex) ==
    IF IsString(nameOrIndex) THEN getByName(r, nameOrIndex.s)
    ELSE getByIndex(r, nameOrIndex)

ColumnNames == {"a", "b", "toString"}

RecordFields ==
    UNION {[1..n -> [name : ColumnNames, dataTypeID : {OID_int4}]] : n \in 1..MaxFields}

(* ordinals around the column range, a fractional one, and names *)
Keys ==
    {NumV(10 * i) : i \in (0 - 1)..(MaxFields + 1)} \cup {NumV(5)}
        \cup {StrV(n) : n \in ColumnNames \cup {"c", "constructor"}}

InitRecord ==
    /\ \E f \in RecordFields :
        rec = [fields |-> f,
               made |-> PostgresSqlResultRecord(
                            RowObject(f, [i \in 1..Len(f) |-> NumV(10 * i)]), f),
               _nameMap |-> UndefinedV]
    /\ key = NullV
    /\ cell = Idle
    /\ DataIdle /\ ExecIdle /\ MultiIdle /\ FactoryIdle
    /\ TripIdle /\ ProvIdle /\ MigIdle /\ LazyIdle

(* new PostgresSqlResultRecord(row, fields).get(nameOrIndex): where the
   constructor threw there is no record to ask *)
Get ==
    /\ \E k \in Keys :
        /\ key' = k
        /\ IF rec.made.kind = "throw"
           THEN cell' = rec.made /\ rec' = rec
           ELSE /\ cell' = get(rec, k)
                /\ rec' = IF IsString(k) /\ nameMap(rec).kind = "return"
                          THEN [rec EXCEPT !._nameMap = nameMap(rec).value]
                          ELSE rec
    /\ UNCHANGED <<dataVars, execVars, multiVars, factoryVars,
                   tripVars, prov, migVars, lazy>>

NextRecord == Get

SpecRecord == InitRecord /\ [][NextRecord]_vars

----------------------------------------------------------------------------
(* PostgresMigrationManager against a database.  db is what the configured
   schema holds: user tables, the empty-marker table, views, and the ledger
   (version table) with its rows; mig is the last call made, the database it
   found and its outcome. *)

MaxTables   == 6
OID_name    == 19
OID_varchar == 1043

MigrationError(msg) == [name |-> "MigrationError", message |-> msg]

versionTableName == StrV(<<"v", "t">>)
emptytestflag    == StrV(<<"e">>)

TableNames(n) == [i \in 1..n |-> StrV(<<"t", Digits[i + 1]>>)]
ViewNames(n)  == [i \in 1..n |-> StrV(<<"w", Digits[i + 1]>>)]

(* pg_tables of the schema *)
pg_tables(d) ==
    TableNames(d.nTables)
        \o (IF d.flag THEN <<emptytestflag>> ELSE <<>>)
        \o (IF d.exists THEN <<versionTableName>> ELSE <<>>)

(* the characters of the version names, in the order of their code units
   and in the order of their first-level weights in a locale collation such
   as en_US.UTF-8 (digits, then letters alphabetically whatever their case) *)
CodeUnits   == <<"0", "1", "2", "B", "a">>
LocaleOrder == <<"0", "1", "2", "a", "B">>
Collations == {"C", "en_US"}

Weight(order, c) == CHOOSE k \in 1..Len(order) : order[k] = c

RECURSIVE Before(_, _, _)
(* character by character in the given order, a prefix first *)
Before(order, a, b) ==
    IF a = <<>> THEN b # <<>>
    ELSE IF b = <<>> THEN FALSE
    ELSE IF Head(a) = Head(b) THEN Before(order, Tail(a), Tail(b))
    ELSE Weight(order, Head(a)) < Weight(order, Head(b))

(* a < b on two strings in the program: by code unit *)
StringLess(a, b) == Before(CodeUnits, a, b)

(* a < b in the order of the VARCHAR column, which is the collation of the
   database: by byte under "C", by the locale's weights otherwise *)
ColumnLess(collation, a, b) ==
    Before(IF collation = "C" THEN CodeUnits ELSE LocaleOrder, a, b)

(* ORDER BY "version" DESC LIMIT 1 *)
TopVersion(d) ==
    CHOOSE v \in {d.rows[i].version : i \in 1..Len(d.rows)} :
        \A i \in 1..Len(d.rows) :
            d.rows[i].version = v \/ ColumnLess(d.collation, d.rows[i].version.s, v.s)

NoSuchTable == [ok |-> FALSE, reason |-> [t |-> "Error", code |-> "42P01", constraint |-> UndefinedV]]
DuplicateTable == [ok |-> FALSE, reason |-> [t |-> "Error", code |-> "42P07", constraint |-> UndefinedV]]
DuplicateKey == [ok |-> FALSE, reason |-> [t |-> "Error", code |-> "23505", constraint |-> StrV(<<"p", "k">>)]]

OneColumn(name, oid, values) ==
    QueryResult(<<[name |-> name, dataTypeID |-> oid]>>,
                [i \in 1..Len(values) |-> <<values[i]>>])

(* the database's answers to the manager's statements *)
SelectExists(d) ==
    OneColumn("?column?", OID_int4, IF d.exists THEN <<NumV(10)>> ELSE <<>>)
SelectTables(d) ==
    OneColumn("tablename", OID_name,
              SelectSeq(pg_tables(d), LAMBDA n : n # emptytestflag))
SelectViews(d) == OneColumn("viewname", OID_name, ViewNames(d.nViews))
SelectVersion(d) ==
    IF ~d.exists THEN NoSuchTable
    ELSE OneColumn("version", OID_varchar,
                   IF d.rows = <<>> THEN <<>> ELSE <<TopVersion(d)>>)

_isVersionTableExist_Always(d) == Ret(TRUE)
_isVersionTableExist(d) ==
    LET isExistSqlData == executeScalarOrNull(SelectExists(d))
    IN  IF isExistSqlData.kind = "throw" THEN isExistSqlData
        ELSE IF isExistSqlData.value = NullV THEN Ret(FALSE)
        ELSE LET n == asInteger(isExistSqlData.value)
             IN  IF n.kind = "throw" THEN n
                 ELSE IF n.value # NumV(10)
                 THEN Throw(MigrationError([text |-> "Unexpected SQL result"]))
                 ELSE Ret(TRUE)

_verifyVersionTableStructure(d) ==
    LET isExist == _isVersionTableExist(d)
    IN  IF isExist.kind = "throw" THEN isExist
        ELSE IF isExist.value = FALSE
        THEN Throw(MigrationError([text |-> "The database does not have version table"]))
        ELSE Ret(UndefinedV)

getCurrentVersion(d) ==
    LET isExist == _isVersionTableExist(d)
        verified == _verifyVersionTableStructure(d)
        versionData == executeScalarOrNull(SelectVersion(d))
    IN  IF isExist.kind = "throw" THEN isExist
        ELSE IF isExist.value = FALSE THEN Ret(NullV)
        ELSE IF verified.kind = "throw" THEN verified
        ELSE IF versionData.kind = "throw" THEN versionData
        ELSE IF versionData.value = NullV THEN Ret(NullV)
        ELSE asString(versionData.value)

(* sqlData.get(0).asString *)
FirstColumn(sqlData) ==
    asString(get([made |-> Ret(sqlData), _nameMap |-> UndefinedV], NumV(0)).value).value

(* records.slice(0, 5).map(sqlData => sqlData.get(0).asString) *)
FirstFive(records) ==
    [i \in 1..(IF Len(records) < 5 THEN Len(records) ELSE 5) |-> FirstColumn(records[i])]

(* the database and the outcome of _createVersionTable *)
_createVersionTable_TablesOnly(d) ==
    LET tables == executeQuery(SelectTables(d))
        create == execute(IF d.exists THEN DuplicateTable ELSE CommandComplete)
    IN  IF tables.kind = "throw" THEN [db |-> d, run |-> tables]
        ELSE IF Len(tables.value.items) > 0
        THEN [db |-> d, run |-> Throw(MigrationError(
                [has |-> "tables", names |-> FirstFive(tables.value.items)]))]
        ELSE [db |-> [d EXCEPT !.exists = TRUE], run |-> create]
_createVersionTable(d) ==
    LET tables == executeQuery(SelectTables(d))
        views  == executeQuery(SelectViews(d))
        create == execute(IF d.exists THEN DuplicateTable ELSE CommandComplete)
    IN  IF tables.kind = "throw" THEN [db |-> d, run |-> tables]
        ELSE IF Len(tables.value.items) > 0
        THEN [db |-> d, run |-> Throw(MigrationError(
                [has |-> "tables", names |-> FirstFive(tables.value.items)]))]
        ELSE IF views.kind = "throw" THEN [db |-> d, run |-> views]
        ELSE IF Len(views.value.items) > 0
        THEN [db |-> d, run |-> Throw(MigrationError(
                [has |-> "views", names |-> FirstFive(views.value.items)]))]
        ELSE IF create.kind = "throw" THEN [db |-> d, run |-> create]
        ELSE [db |-> [d EXCEPT !.exists = TRUE], run |-> create]

(* the database's answer to INSERT INTO <ledger>("version", "log")
   VALUES($1, $2), and the ledger after it: "version" is the primary key *)
InsertRow(d, values) ==
    IF ~d.exists THEN [db |-> d, reply |-> NoSuchTable]
    ELSE IF \E i \in 1..Len(d.rows) : d.rows[i].version = values[1]
    THEN [db |-> d, reply |-> DuplicateKey]
    ELSE [db |-> [d EXCEPT !.rows = Append(@, [version |-> values[1], log |-> values[2]])],
          reply |-> CommandComplete]

_insertVersionLog_Upsert(d, version, logText) ==
    LET values == statementArgumentsAdapter(<<version, logText>>)
        kept == SelectSeq(d.rows, LAMBDA r : r.version # values[1])
    IN  IF ~d.exists THEN [db |-> d, run |-> execute(NoSuchTable)]
        ELSE [db |-> [d EXCEPT !.rows = Append(kept, [version |-> values[1], log |-> values[2]])],
              run |-> execute(CommandComplete)]
(* the database and the outcome of _insertVersionLog *)
_insertVersionLog(d, version, logText) ==
    LET ins == InsertRow(d, statementArgumentsAdapter(<<version, logText>>))
    IN  [db |-> ins.db, run |-> execute(ins.reply)]

Versions == {StrV(<<"1">>), StrV(<<"1", "0">>), StrV(<<"2">>)}
LogTexts == {StrV(<<"o", "k">>), StrV(<<>>)}

InitMigration ==
    /\ db \in [nTables : 0..MaxTables, flag : BOOLEAN, nViews : {0, 1, MaxTables},
               exists : BOOLEAN, rows : {<<>>}, collation : Collations]
    /\ mig = Idle
    /\ sources = {}
    /\ DataIdle /\ ExecIdle /\ MultiIdle /\ FactoryIdle
    /\ TripIdle /\ RecordIdle /\ ProvIdle /\ LazyIdle

MigrationFrame ==
    UNCHANGED <<dataVars, execVars, multiVars, factoryVars, tripVars, recordVars, prov,
                sources, lazy>>

CallGetCurrentVersion ==
    /\ mig' = [op |-> "getCurrentVersion", was |-> db, result |-> getCurrentVersion(db)]
    /\ UNCHANGED db
    /\ MigrationFrame

CallCreateVersionTable ==
    /\ mig' = [op |-> "createVersionTable", was |-> db, result |-> _createVersionTable(db).run]
    /\ db' = _createVersionTable(db).db
    /\ MigrationFrame

CallInsertVersionLog ==
    /\ Len(db.rows) < MaxRows
    /\ \E version \in Versions, logText \in LogTexts :
        /\ mig' = [op |-> "insertVersionLog", was |-> db,
                   version |-> version, logText |-> logText,
                   result |-> _insertVersionLog(db, version, logText).run]
        /\ db' = _insertVersionLog(db, version, logText).db
    /\ MigrationFrame

NextMigration ==
    \/ CallGetCurrentVersion
    \/ CallCreateVersionTable
    \/ CallInsertVersionLog

SpecMigration == InitMigration /\ [][NextMigration]_vars

----------------------------------------------------------------------------
(* manager.install: the units of the migration sources applied through
   getCurrentVersion, _isVersionTableExist, _createVersionTable and
   _insertVersionLog, one transaction per unit *)

VersionNames == {StrV(<<"1">>), StrV(<<"1", "0">>), StrV(<<"B">>), StrV(<<"a">>)}

RECURSIVE sort(_)
(* [...versionNames].sort(): ascending by code unit *)
sort(names) ==
    IF names = {} THEN <<>>
    ELSE LET least == CHOOSE n \in names :
                        \A o \in names : o = n \/ StringLess(n.s, o.s)
         IN  <<least>> \o sort(names \ {least})

(* the versions after currentVersion, up to targetVersion when one is given *)
scheduleVersions(currentVersion, targetVersion, names) ==
    LET availableVersions == sort(names)
        later == IF currentVersion = NullV THEN availableVersions
                 ELSE SelectSeq(availableVersions,
                                LAMBDA c : StringLess(currentVersion.s, c.s))
    IN  IF targetVersion = UndefinedV THEN later
        ELSE SelectSeq(later, LAMBDA c : c = targetVersion \/ StringLess(c.s, targetVersion.s))

ScriptFailure == [name |-> "SqlError", message |-> [text |-> "script"]]
flush == StrV(<<"o", "k">>)

(* one unit inside usingProviderWithTransaction: BEGIN TRANSACTION, the
   scripts of the unit (here: one more table), _insertVersionLog, COMMIT
   TRANSACTION; a failure of the worker is followed by ROLLBACK TRANSACTION
   and thrown again *)
InstallVersion(d, versionName, scriptFails) ==
    LET scripted == [d EXCEPT !.nTables = @ + 1]
        logged == _insertVersionLog(scripted, versionName, flush)
    IN  IF scriptFails THEN [db |-> d, run |-> Throw(ScriptFailure)]
        ELSE IF logged.run.kind = "throw" THEN [db |-> d, run |-> logged.run]
        ELSE logged

(* the element of a set of one element *)
Only(S) == CHOOSE x \in S : TRUE

RECURSIVE InstallAll_SkipAhead(_, _, _, _)
InstallAll_SkipAhead(d, schedule, k, failAt) ==
    IF schedule = <<>> THEN [db |-> d, run |-> Ret(UndefinedV)]
    ELSE Only({InstallAll_SkipAhead(one.db, Tail(schedule), k + 1, failAt) :
                 one \in {InstallVersion(d, Head(schedule), k = failAt)}})

RECURSIVE InstallAll(_, _, _, _)
(* for (const versionName of scheduleVersions) { await usingProviderWithTransaction(...) } *)
InstallAll(d, schedule, k, failAt) ==
    IF schedule = <<>> THEN [db |-> d, run |-> Ret(UndefinedV)]
    ELSE Only({IF one.run.kind = "throw" THEN one
               ELSE InstallAll(one.db, Tail(schedule), k + 1, failAt) :
                 one \in {InstallVersion(d, Head(schedule), k = failAt)}})

(* the database and the outcome of install; the scripts of the failAt-th
   scheduled unit fail, none when failAt = 0 *)
install(d, names, targetVersion, failAt) ==
    Only({ IF currentVersion.kind = "throw" THEN [db |-> d, run |-> currentVersion]
           ELSE IF isExist.kind = "throw" THEN [db |-> d, run |-> isExist]
           ELSE Only({ IF created.run.kind = "throw" THEN created
                       ELSE Only({ InstallAll(created.db, schedule, 1, failAt) :
                                   schedule \in {scheduleVersions(currentVersion.value,
                                                                  targetVersion, names)} }) :
                       created \in {IF isExist.value THEN [db |-> d, run |-> Ret(UndefinedV)]
                                    ELSE _createVersionTable(d)} }) :
           currentVersion \in {getCurrentVersion(d)},
           isExist \in {_isVersionTableExist(d)} })

InitInstall ==
    /\ db \in [nTables : {0, 1}, flag : BOOLEAN, nViews : {0}, exists : {FALSE},
               rows : {<<>>}, collation : Collations]
    /\ mig = Idle
    /\ sources \in SUBSET VersionNames \ {{}}
    /\ DataIdle /\ ExecIdle /\ MultiIdle /\ FactoryIdle
    /\ TripIdle /\ RecordIdle /\ ProvIdle /\ LazyIdle

CallInstall ==
    /\ db.nTables + Cardinality(sources) <= MaxTables
    /\ \E targetVersion \in sources \cup {UndefinedV}, failAt \in 0..Cardinality(sources) :
        \E installed \in {install(db, sources, targetVersion, failAt)} :
            /\ mig' = [op |-> "install", was |-> db, targetVersion |-> targetVersion,
                       failAt |-> failAt, result |-> installed.run]
            /\ db' = installed.db
    /\ MigrationFrame

NextInstall ==
    \/ CallInstall
    \/ CallGetCurrentVersion

SpecInstall == InitInstall /\ [][NextInstall]_vars

----------------------------------------------------------------------------
(* PostgresProviderFactory that makes its pg.Pool on the first create and
   counts the providers it handed out (_providesCount); one step per call
   and per callback of the driver *)
MaxCreates == 3
MaxPools   == 2

NoCall == [pc |-> "idle", token |-> FALSE, pool |-> 0, onEnded |-> FALSE,
           holds |-> FALSE, result |-> Idle]
NewPool == [ends |-> 0, out |-> 0]

InitLazy ==
    /\ lazy = [_providesCount |-> 0, _postgresConnectionPool |-> 0,
               pools |-> <<>>, calls |-> [c \in 1..MaxCreates |-> NoCall]]
    /\ DataIdle /\ ExecIdle /\ MultiIdle /\ FactoryIdle
    /\ TripIdle /\ RecordIdle /\ ProvIdle /\ MigIdle

LazyFrame == UNCHANGED <<dataVars, execVars, multiVars, factoryVars,
                         tripVars, recordVars, prov, migVars>>

(* the owner of the token requests cancellation *)
CancelCreate(c) ==
    /\ lazy.calls[c].pc \in {"idle", "connect"}
    /\ ~lazy.calls[c].token
    /\ lazy' = [lazy EXCEPT !.calls[c].token = TRUE]
    /\ LazyFrame

(* create(): the cancellation check, the pool made when there is none,
   pool.connect(callback) *)
Create(c) ==
    /\ lazy.calls[c].pc = "idle"
    /\ IF lazy.calls[c].token
       THEN lazy' = [lazy EXCEPT !.calls[c].pc = "rejected",
                                 !.calls[c].result = Throw(CancelledError)]
       ELSE LET made == lazy._postgresConnectionPool = 0
                pools == IF made THEN Append(lazy.pools, NewPool) ELSE lazy.pools
                p == IF made THEN Len(pools) ELSE lazy._postgresConnectionPool
            IN  /\ made => Len(lazy.pools) < MaxPools
                /\ lazy' = [lazy EXCEPT !._postgresConnectionPool = p,
                                        !.pools = pools,
                                        !.calls[c].pc = "connect",
                                        !.calls[c].pool = p,
                                        !.calls[c].onEnded = pools[p].ends > 0]
    /\ LazyFrame

(* pool.connect on a pool whose end() was called fails; otherwise it gives
   an error or a connection *)
ConnectErrs(call) == IF call.onEnded THEN {TRUE} ELSE BOOLEAN

(* the callback of pool.connect *)
OnPoolConnect(c) ==
    /\ lazy.calls[c].pc = "connect"
    /\ \E err \in ConnectErrs(lazy.calls[c]) :
        LET p == lazy.calls[c].pool
        IN  IF err
            THEN IF lazy._providesCount = 0
                 THEN lazy' = [lazy EXCEPT !.pools[p].ends = @ + 1,
                                           !.calls[c].pc = "pending"]
                 ELSE lazy' = [lazy EXCEPT !.calls[c].pc = "rejected",
                                           !.calls[c].result =
                                                Throw(DriverError(ConnectionFailure))]
            ELSE IF lazy.calls[c].token
                 THEN lazy' = [lazy EXCEPT !.pools[p].out = @ + 1,
                                           !.calls[c].holds = TRUE,
                                           !.calls[c].pc = "rejected",
                                           !.calls[c].result = Throw(CancelledError)]
                 ELSE lazy' = [lazy EXCEPT !.pools[p].out = @ + 1,
                                           !.calls[c].holds = TRUE,
                                           !._providesCount = @ + 1,
                                           !.calls[c].pc = "resolved",
                                           !.calls[c].result =
                                                Ret([t |-> "SqlProvider", pgClient |-> c])]
    /\ LazyFrame

(* sqlProvider.dispose() on a provider create resolved with: the disposer *)
DisposeCounted(c) ==
    /\ lazy.calls[c].pc = "resolved"
    /\ LET p == lazy.calls[c].pool
           current == lazy._postgresConnectionPool
           released == [lazy EXCEPT !.pools[p].out = @ - 1,
                                    !.calls[c].holds = FALSE,
                                    !.calls[c].pc = "disposed",
                                    !._providesCount = @ - 1]
       IN  lazy' = IF released._providesCount = 0 /\ current # 0
                   THEN [released EXCEPT !.pools[current].ends = @ + 1,
                                         !._postgresConnectionPool = 0]
                   ELSE released
    /\ LazyFrame

NextLazy ==
    \E c \in 1..MaxCreates :
        \/ CancelCreate(c)
        \/ Create(c)
        \/ OnPoolConnect(c)
        \/ DisposeCounted(c)

SpecLazy == InitLazy /\ [][NextLazy]_vars

(* the driver calls every connect callback *)
SpecLazyFair ==
    SpecLazy /\ \A c \in 1..MaxCreates : WF_vars(OnPoolConnect(c))

----------------------------------------------------------------------------
(* Properties of the value cell, checked under SpecData *)

IsWrongType(o) ==
    /\ o.kind = "throw"
    /\ o.error.name = "InvalidOperationError"
    /\ o.error.message.caller = caller

(* C1: on a cell whose raw value is SQL NULL, whatever the field's wire type
   tag, every non-nullable accessor fails with the wrong-type error and every
   Nullable accessor returns null. *)
C1_NullCell ==
    (caller # "none" /\ data._postgresValue = NullV) =>
        /\ caller \in StrictAccessors => IsWrongType(got)
        /\ caller \in NullableAccessors => got = Ret(NullV)

C1_Witness ==
    /\ caller = "asObject"
    /\ data._postgresValue = NullV
    /\ data._fi.dataTypeID = OID_jsonb
    /\ IsWrongType(got)

(* the runtime representation the accessor asks for; the object accessor is
   decided by the field's wire type tag *)
RepresentationMatches(a, v, fi) ==
    CASE a \in {"asBoolean", "asNullableBoolean"}     -> v.t = "boolean"
      [] a \in {"asString", "asNullableString"}       -> v.t = "string"
      [] a \in {"asInteger", "asNullableInteger"}     -> v.t = "number" /\ v.n10 % 10 = 0
      [] a \in {"asNumber", "asNullableNumber"}       ->
            v.t \in {"number", "NaN"} \/ (v.t = "string" /\ fi.dataTypeID = OID_numeric)
      [] a \in {"asFinancial", "asNullableFinancial"} -> v.t \in {"number", "NaN", "string"}
      [] a \in {"asDate", "asNullableDate"}           -> v.t = "Date"
      [] a \in {"asBinary", "asNullableBinary"}       -> v.t = "Buffer"
      [] a \in {"asObject", "asNullableObject"}       -> fi.dataTypeID = OID_jsonb

(* C2: on a cell with a non-null raw value whose runtime representation does
   not match the accessor, the accessor and its Nullable variant both fail
   with the wrong-type error, and the error names the field and the field's
   declared wire type tag. *)
C2_Mismatch ==
    ( /\ caller # "none"
      /\ data._postgresValue # NullV
      /\ ~RepresentationMatches(caller, data._postgresValue, data._fi) ) =>
        /\ IsWrongType(got)
        /\ got.error.message.field = data._fi.name
        /\ got.error.message.dataTypeID = data._fi.dataTypeID

C2_Witness ==
    /\ caller = "asNullableInteger"
    /\ data._postgresValue = NumV(15)
    /\ IsWrongType(got)
    /\ got.error.message.field = data._fi.name
    /\ got.error.message.dataTypeID = OID_int4

DateAccessors == {"asDate", "asNullableDate"}

(* C25: asDate and asNullableDate return a value for a non-null raw value
   only when the field's type tag is TIMESTAMP WITHOUT TIME ZONE; for a
   non-null value with any other tag they throw InvalidOperationError whose
   message names the accessor and the field's actual type tag. *)
C25_DateTag ==
    ( /\ caller \in DateAccessors
      /\ data._postgresValue # NullV ) =>
        /\ got.kind = "return" => data._fi.dataTypeID = OID_timestamp
        /\ data._fi.dataTypeID # OID_timestamp =>
            /\ IsWrongType(got)
            /\ got.error.message.caller = caller
            /\ got.error.message.dataTypeID = data._fi.dataTypeID
            /\ got.error.message.sub = [supported |-> OID_timestamp,
                                        gotOID    |-> data._fi.dataTypeID]

C25_Witness ==
    /\ caller = "asNullableDate"
    /\ data._fi.dataTypeID = OID_timestamptz
    /\ IsDate(data._postgresValue)
    /\ IsWrongType(got)
    /\ got.error.message.caller = "asNullableDate"
    /\ got.error.message.sub.gotOID = OID_timestamptz

(* C26: reading a TIMESTAMP WITH TIME ZONE cell, whose raw value is the Date
   of the stored instant, through asDate returns a Date equal to that
   instant. *)
C26_ReadTimestamptz ==
    ( /\ caller = "asDate"
      /\ data._fi.dataTypeID = OID_timestamptz
      /\ IsDate(data._postgresValue) ) =>
        got = Ret(data._postgresValue)

----------------------------------------------------------------------------
(* Properties of the single-set operations, checked under SpecExec *)

Threw(o, errorName) == o.kind = "throw" /\ o.error.name = errorName

FirstFieldIs(r, oid) == Len(r.fields) >= 1 /\ r.fields[1].dataTypeID = oid

(* C3: on a driver result with zero rows executeScalar fails with
   NoSuchRecord and executeScalarOrNull returns null. *)
C3_ScalarZeroRows ==
    (reply.ok /\ Len(reply.rows) = 0) =>
        /\ op = "executeScalar" => Threw(ret, "SqlNoSuchRecordError")
        /\ op = "executeScalarOrNull" => ret = Ret(NullV)

C3_Witness ==
    /\ op = "executeScalar"
    /\ reply.ok /\ Len(reply.rows) = 0 /\ Len(reply.fields) = 0
    /\ Threw(ret, "SqlNoSuchRecordError")

(* the records of the driver rows, one per row, in row order *)
OneRecordPerRow(o, r) ==
    /\ o.kind = "return"
    /\ o.value.t = "Array"
    /\ Len(o.value.items) = Len(r.rows)
    /\ \A k \in 1..Len(r.rows) :
          /\ o.value.items[k]._fieldsData = r.rows[k]
          /\ o.value.items[k]._fieldsInfo = r.fields

(* C4: executeQuery returns an empty sequence, without error, whenever the
   successful driver result has zero rows (whatever its field descriptors,
   none at all included) or a void first field; otherwise it returns one
   Result Record per driver row, in driver row order. *)
C4_QueryClaim ==
    (op = "executeQuery" /\ reply.ok) =>
        IF Len(reply.rows) = 0 \/ FirstFieldIs(reply, OID_void)
        THEN ret = Ret(ArrayV(<<>>))
        ELSE OneRecordPerRow(ret, reply)

SingleSetOps ==
    {"executeQuery", "executeScalar", "executeScalarOrNull", "executeSingle",
     "executeSingleOrNull"}

(* C5: on a driver result whose first field is a cursor handle, with any
   number of rows, zero included, each single-set operation fails with
   InvalidOperation. *)
C5_MultiSetClaim ==
    (op \in SingleSetOps /\ reply.ok /\ FirstFieldIs(reply, OID_refcursor)) =>
        Threw(ret, "InvalidOperationError")

IsRecordOf(o, row, fields) ==
    /\ o.kind = "return"
    /\ o.value.t = "Record"
    /\ o.value._fieldsData = row
    /\ o.value._fieldsInfo = fields

SingleOps == {"executeSingle", "executeSingleOrNull"}

(* C6 as claimed: executeSingle and executeSingleOrNull return the record of
   the only row when there is exactly one row, whatever the fields; fail with
   InvalidOperation on more than one row; on zero rows executeSingle fails
   with NoSuchRecord and executeSingleOrNull returns null. *)
C6_SingleClaim ==
    (op \in SingleOps /\ reply.ok) =>
        /\ Len(reply.rows) = 1 => IsRecordOf(ret, reply.rows[1], reply.fields)
        /\ Len(reply.rows) > 1 => Threw(ret, "InvalidOperationError")
        /\ Len(reply.rows) = 0 =>
              IF op = "executeSingle" THEN Threw(ret, "SqlNoSuchRecordError")
              ELSE ret = Ret(NullV)

(* C6 as amended: a result without field descriptors or with a cursor handle
   as first field fails with InvalidOperation whatever its rows; otherwise
   zero rows give NoSuchRecord (executeSingle) or null (executeSingleOrNull);
   more than one row, or one row under a void first field, fail with
   InvalidOperation; one row under a non-void first field gives the record of
   that row, unless repeated column names left the row with fewer values than
   field descriptors, which fails with the internal consistency error. *)
C6_SingleAmended ==
    (op \in SingleOps /\ reply.ok) =>
        IF Len(reply.fields) = 0 \/ FirstFieldIs(reply, OID_refcursor)
        THEN Threw(ret, "InvalidOperationError")
        ELSE IF Len(reply.rows) = 0
        THEN IF op = "executeSingle" THEN Threw(ret, "SqlNoSuchRecordError")
             ELSE ret = Ret(NullV)
        ELSE IF Len(reply.rows) > 1 \/ FirstFieldIs(reply, OID_void)
        THEN Threw(ret, "InvalidOperationError")
        ELSE IF \E p, q \in 1..Len(reply.fields) :
                    p # q /\ reply.fields[p].name = reply.fields[q].name
        THEN Threw(ret, "Error")
        ELSE IsRecordOf(ret, reply.rows[1], reply.fields)

C6_Witness ==
    /\ op = "executeSingleOrNull"
    /\ reply.ok /\ Len(reply.rows) = 1 /\ Len(reply.fields) = 2
    /\ IsRecordOf(ret, reply.rows[1], reply.fields)

(* C7: on a single-set driver result with at least one row executeScalar
   returns a cell holding the value of the first column of the first row and
   that column's field descriptor, whatever further rows and columns there
   are and whether or not column names repeat. *)
C7_ScalarClaim ==
    ( /\ op = "executeScalar"
      /\ reply.ok
      /\ Len(reply.rows) >= 1
      /\ Len(reply.fields) >= 1
      /\ ~FirstFieldIs(reply, OID_refcursor) ) =>
        ret = Ret([_postgresValue |-> reply.wire[1][1], _fi |-> reply.fields[1]])

----------------------------------------------------------------------------
(* Properties of executeQueryMultiSets, checked under SpecMulti *)

RecordsOf(result) ==
    ArrayV([r \in 1..Len(result.rows) |->
              [t |-> "Record", _fieldsData |-> result.rows[r],
               _fieldsInfo |-> result.fields]])

(* C8: when the statement returned n cursor handles, the operation returns
   exactly n record sequences, the i-th holding all rows the server handed
   over for the i-th handle, in row order; the queries sent are BEGIN, the
   statement, one FETCH per handle in the order the handles were returned,
   COMMIT. *)
C8_MultiSets ==
    (pc = "done" /\ mret.kind = "return") =>
        LET n == Len(stmtReply.wire)
        IN  /\ mret.value.t = "Array"
            /\ Len(mret.value.items) = n
            /\ Len(sent) = n + 3
            /\ sent[1] = BeginSql
            /\ sent[2] = StatementSql
            /\ sent[n + 3] = CommitSql
            /\ \A i \in 1..n :
                  /\ sent[i + 2] = FetchSql(stmtReply.wire[i][1])
                  /\ answered[i + 2].reply.ok
                  /\ mret.value.items[i] = RecordsOf(answered[i + 2].reply)

C8_Witness ==
    /\ pc = "done"
    /\ mret.kind = "return"
    /\ Len(mret.value.items) = 2
    /\ stmtReply.wire = <<<<H1>>, <<H2>>>>
    /\ Len(mret.value.items[1].items) = 2
    /\ Len(mret.value.items[2].items) = 1

(* C9: when a step fails after the transaction was opened, ROLLBACK is sent
   and the caller receives the original failure; when the ROLLBACK fails as
   well, the caller receives an aggregate of the original failure and the
   rollback failure. *)
C9_RollbackClaim ==
    (pc = "done" /\ caught # Idle) =>
        /\ sent[Len(sent)] = RollbackSql
        /\ LET rollbackReply == answered[Len(answered)].reply
           IN  IF rollbackReply.ok
               THEN mret = caught
               ELSE mret = Throw(AggregateError(
                        <<caught.error,
                          executeRunQuery(rollbackReply, RollbackSql).error>>))

FailsWithCancelled(o) ==
    /\ o.kind = "throw"
    /\ \/ o.error = CancelledError
       \/ /\ o.error.name = "AggregateError"
          /\ o.error.innerErrors[1] = CancelledError

(* C10: the token is checked after the statement and after every cursor
   fetch; when cancellation is requested at one of those points no further
   cursor is fetched, no COMMIT is sent, ROLLBACK is sent, and the operation
   fails with Cancelled (alone or, the ROLLBACK failing too, as the original
   failure of the aggregate). *)
C10_CancelClaim ==
    pc = "done" =>
        \A k \in 2..Len(answered) :
            ( /\ sent[k].sql \in {"statement", "FETCH ALL IN"}
              /\ answered[k].reply.ok
              /\ answered[k].cancelled ) =>
                /\ Len(sent) = k + 1
                /\ sent[k + 1] = RollbackSql
                /\ FailsWithCancelled(mret)

IsDriverError(r) == ~r.ok /\ r.reason.t = "Error"
SyntaxRejection(r) == IsDriverError(r) /\ r.reason.code = "42601"
StatementWasSent == \E k \in 1..Len(sent) : sent[k] = StatementSql

(* C11: a statement the driver rejects as a syntax error (code 42601) fails
   with SqlSyntaxError whose inner cause is the driver's error, for execute,
   executeQuery, executeScalar, executeScalarOrNull and executeSingle, and
   for executeQueryMultiSets once it has settled. *)
C11_SyntaxClaim ==
    /\ ( /\ op \in {"execute", "executeQuery", "executeScalar",
                     "executeScalarOrNull", "executeSingle"}
         /\ SyntaxRejection(reply) ) =>
            /\ Threw(ret, "SqlSyntaxError")
            /\ ret.error.innerError = reply.reason
    /\ ( /\ pc = "done"
         /\ StatementWasSent
         /\ SyntaxRejection(stmtReply) ) =>
            /\ Threw(mret, "SqlSyntaxError")
            /\ mret.error.innerError = stmtReply.reason

(* SQLSTATE class 23, integrity constraint violation *)
IntegrityConstraintViolation ==
    {"23000", "23001", "23502", "23503", "23505", "23514", "23P01"}

(* C12: a driver failure whose code denotes a constraint violation is
   re-raised as SqlConstraintError whose inner cause is the driver's error
   and whose constraint name is the one the driver supplied, when it
   supplied one. *)
C12_ConstraintClaim ==
    ( /\ op # "none"
      /\ IsDriverError(reply)
      /\ reply.reason.code \in IntegrityConstraintViolation ) =>
        /\ Threw(ret, "SqlConstraintError")
        /\ ret.error.innerError = reply.reason
        /\ (reply.reason.constraint.t = "string" =>
                ret.error.constraintName = reply.reason.constraint)

C12_Witness ==
    /\ op = "execute"
    /\ IsDriverError(reply)
    /\ reply.reason.code = "23505"
    /\ reply.reason.constraint = StrV(<<"u", "q">>)
    /\ Threw(ret, "SqlConstraintError")
    /\ ret.error.constraintName = StrV(<<"u", "q">>)

(* C13: every driver failure is re-raised as one of SqlSyntaxError,
   SqlConstraintError, SqlPermissionError or SqlError wrapping the original
   cause, whatever the driver rejected with; no other error reaches the
   caller. *)
C13_ClassifyClaim ==
    (op # "none" /\ ~reply.ok) =>
        /\ ret.kind = "throw"
        /\ ret.error.name \in {"SqlSyntaxError", "SqlConstraintError",
                                "SqlPermissionError", "SqlError"}
        /\ ret.error.innerError = wrapErrorIfNeeded(reply.reason)

----------------------------------------------------------------------------
(* Properties of the provider lifecycle, checked under SpecFactory *)

Holds(t) == task[t].acquired = 1 /\ task[t].releases = 0

(* C14: once usingProvider has settled, the client it acquired has been
   released exactly once (none at all when create failed), the clients
   checked out of the pool are exactly the ones still held, and, the worker
   having run, the caller has the worker's result or the worker's failure. *)
C14_UsingProvider ==
    /\ \A t \in DOMAIN task :
        (task[t].kind = "usingProvider" /\ task[t].pc = "done") =>
            /\ task[t].releases = task[t].acquired
            /\ task[t].wres # Idle =>
                /\ task[t].acquired = 1
                /\ task[t].result = task[t].wres
    /\ pool.out = {task[t].client : t \in {u \in DOMAIN task : Holds(u)}}

C14_Witness ==
    \E t \in DOMAIN task :
        /\ task[t].kind = "usingProvider"
        /\ task[t].pc = "done"
        /\ task[t].token
        /\ task[t].result = Throw(CancelledError)
        /\ task[t].wres = Throw(CancelledError)
        /\ task[t].releases = 1
        /\ task[t].client \notin pool.out

IndexOf(s, x) == CHOOSE k \in 1..Len(s) : s[k] = x
Has(s, x) == \E k \in 1..Len(s) : s[k] = x

(* C15: usingProviderWithTransaction sends BEGIN before the worker runs;
   after a worker result it sends COMMIT and returns that result only when
   COMMIT succeeded; after a worker failure it sends ROLLBACK and no COMMIT
   and fails with the worker's failure or, the ROLLBACK failing too, with
   the aggregate of both; the provider is released in every case. *)
C15_Transaction ==
    \A t \in DOMAIN task :
        LET r == task[t] IN
        (r.kind = "usingProviderWithTransaction") =>
            /\ r.wres # Idle =>
                /\ Has(r.sent, BeginSql)
                /\ r.answered[IndexOf(r.sent, BeginSql)]
                /\ \A k \in 1..Len(r.sent) :
                        r.sent[k] = StatementSql => k > IndexOf(r.sent, BeginSql)
            /\ (r.wres # Idle /\ r.wres.kind = "return" /\ r.pc # "worker") =>
                    Has(r.sent, Sql("COMMIT TRANSACTION"))
            /\ (r.pc = "done" /\ r.result.kind = "return") =>
                /\ r.result = r.wres
                /\ r.sent[Len(r.sent)] = Sql("COMMIT TRANSACTION")
                /\ r.answered[Len(r.sent)]
            /\ (r.wres # Idle /\ r.wres.kind = "throw" /\ r.pc # "worker") =>
                /\ ~Has(r.sent, Sql("COMMIT TRANSACTION"))
                /\ r.sent[Len(r.sent)] = Sql("ROLLBACK TRANSACTION")
                /\ r.pc = "done" =>
                        r.result =
                            IF r.answered[Len(r.sent)] THEN r.wres
                            ELSE Throw(AggregateError(
                                    <<r.wres.error,
                                      executeRunQuery(Rejected, Sql("ROLLBACK TRANSACTION")).error>>))
            /\ r.pc = "done" => r.releases = r.acquired

C15_Witness ==
    \E t \in DOMAIN task :
        /\ task[t].kind = "usingProviderWithTransaction"
        /\ task[t].pc = "done"
        /\ task[t].wres.kind = "throw"
        /\ task[t].result.kind = "throw"
        /\ task[t].result.error.name = "AggregateError"
        /\ task[t].releases = 1

(* C16: create called with cancellation already requested fails with
   Cancelled; and when create fails after it acquired a client, that client
   has been released exactly once and is not held. *)
C16_CreateClaim ==
    \A t \in DOMAIN task :
        ( /\ task[t].kind = "create"
          /\ task[t].calledIn = "initialized"
          /\ task[t].result # Idle ) =>
            /\ task[t].tokenAtCall => task[t].result = Throw(CancelledError)
            /\ (task[t].result.kind = "throw" /\ task[t].acquired = 1) =>
                    task[t].releases = 1

(* C17: no query is sent through a provider's client after the provider was
   disposed and the client released, not even by a Statement object made
   before the disposal. *)
C17_NoUseAfterRelease ==
    \A t \in DOMAIN task : ~task[t].usedReleased

(* C18: over any sequence of create calls, provider disposals and factory
   disposals, a client is released at most once per acquisition and the pool
   is ended at most once. *)
C18_ReleaseOnce ==
    /\ \A t \in DOMAIN task : task[t].releases <= task[t].acquired
    /\ pool.ends <= 1

C18_Witness ==
    /\ pool.ends = 1
    /\ \E t \in DOMAIN task :
        /\ task[t].kind = "create"
        /\ task[t].disposed
        /\ task[t].releases = 1

(* C19: create and usingProvider called on a factory that is not
   initialised, or is disposed, have failed when the call returns, without
   a client acquired or a query sent. *)
C19_FailFast ==
    \A t \in DOMAIN task :
        ( /\ task[t].kind \in {"create", "usingProvider"}
          /\ task[t].calledIn # "initialized" ) =>
            /\ task[t].pc = "done"
            /\ task[t].result.kind = "throw"
            /\ task[t].acquired = 0
            /\ task[t].sent = <<>>

C19_Witness ==
    /\ \E t \in DOMAIN task :
        /\ task[t].kind = "usingProvider"
        /\ task[t].calledIn = "disposed"
        /\ task[t].result.kind = "throw"
    /\ \E t \in DOMAIN task :
        /\ task[t].kind = "create"
        /\ task[t].calledIn = "constructed"
        /\ task[t].result.kind = "throw"

(* C20: providers that hold clients at the same time hold distinct clients,
   each checked out of the pool; disposing one provider leaves the client of
   every other provider checked out. *)
C20_Independent ==
    \A t \in DOMAIN task :
        Holds(t) =>
            /\ task[t].client \in pool.out
            /\ \A u \in DOMAIN task :
                (u # t /\ Holds(u)) => task[u].client # task[t].client

C20_Witness ==
    \E t, u \in DOMAIN task :
        /\ t # u
        /\ task[t].kind = "create" /\ task[u].kind = "create"
        /\ task[t].stmt = "used" /\ ~task[t].usedReleased
        /\ task[t].disposed /\ task[t].releases = 1
        /\ task[u].pc = "owned" /\ Holds(u)
        /\ task[u].stmt = "used" /\ ~task[u].usedReleased
        /\ task[u].client \in pool.out
        /\ task[u].client # task[t].client

----------------------------------------------------------------------------
(* Properties of a provider's statements and temporary table, checked under
   SpecProvider *)

NothingSentByStatement == [][prov'.stmt # prov.stmt => prov'.sent = prov.sent]_vars

(* C21 as stated: statement(sql) fails with ArgumentError when sql is empty
   and otherwise returns a new Statement bound to the provider; it sends
   nothing. *)
C21_StatementClaim ==
    /\ [](prov.stmt # Idle =>
            prov.stmt = IF prov.sql = "" THEN Throw(ArgumentError("sql"))
                        ELSE Ret([t |-> "Statement", sql |-> Sql(prov.sql)]))
    /\ NothingSentByStatement

(* C21 amended: on a provider that is not disposed, statement(sql) fails with
   ArgumentError when sql is empty and otherwise returns a new Statement; on
   a disposed provider it fails with the disposed-object error whatever sql
   is; it sends nothing in any case. *)
C21_StatementAmended ==
    /\ [](prov.stmt # Idle =>
            \/ /\ prov.stmt.kind = "throw"
               /\ prov.stmt.error.name = "Error"
               /\ prov.disposed
            \/ prov.stmt = IF prov.sql = "" THEN Throw(ArgumentError("sql"))
                           ELSE Ret([t |-> "Statement", sql |-> Sql(prov.sql)]))
    /\ [](( /\ prov.stmt # Idle
            /\ prov.stmt.kind = "throw"
            /\ prov.stmt.error.name = "Error" ) => prov.disposed)
    /\ [][( /\ prov'.stmt # prov.stmt
            /\ prov.disposed ) => prov'.stmt.error.name = "Error"]_vars
    /\ NothingSentByStatement

C21_Witness ==
    /\ prov.disposed
    /\ prov.sql = ""
    /\ prov.stmt.kind = "throw"
    /\ prov.stmt.error.name = "Error"
    /\ prov.sent = <<>>

(* C22: disposing a temporary table never raises.  It sends DROP TABLE
   unless the owning provider is disposed (statement() refuses then, which
   is swallowed like a failure of the DROP); every failure is logged and
   swallowed. *)
C22_TempTableDispose ==
    prov.temp = "disposed" =>
        /\ prov.dropped = Ret(UndefinedV)
        /\ IF prov.ownerGone
           THEN /\ Len(prov.log) = 1
                /\ prov.log[1].name = "Error"
           ELSE /\ \E k \in 1..Len(prov.sent) : prov.sent[k] = Sql("DROP TABLE")
                /\ IF prov.dropAnswer.ok THEN prov.log = <<>>
                   ELSE prov.log = <<executeRunQuery(prov.dropAnswer, Sql("DROP TABLE")).error>>

C22_Witness ==
    /\ prov.temp = "disposed"
    /\ prov.ownerGone
    /\ prov.dropped = Ret(UndefinedV)
    /\ Len(prov.log) = 1

----------------------------------------------------------------------------
(* Properties of statement parameters, checked under SpecRoundTrip *)

WasRead == args # <<>> /\ args[3] # 0

(* C23: for every instant and every local offset rule, a Date passed as a
   statement parameter and read back from its TIMESTAMP column through
   asDate is the instant that was passed. *)
C23_DateRoundTrip ==
    ( /\ WasRead
      /\ caller = "asDate"
      /\ IsDate(args[1][args[3]]) ) =>
        got = Ret(args[1][args[3]])

IsCanonical(s) ==
    /\ Len(s) >= 1
    /\ (\E k \in 1..Len(s) : s[k] = ".") => s[Len(s)] \notin {"0", "."}
    /\ LET p == IF s[1] = "-" THEN 2 ELSE 1
       IN  /\ Len(s) >= p
           /\ IsDigit(s[p])
           /\ (s[p] = "0" /\ Len(s) > p) => s[p + 1] = "."

(* C24: argument adaptation replaces every Financial parameter by its
   canonical string and leaves every parameter that is neither a Financial
   nor a Date unchanged at its position; the string read back through
   asFinancial is a Financial of the same numeric value. *)
C24_FinancialArgs ==
    args # <<>> =>
        /\ Len(args[2]) = Len(args[1])
        /\ \A i \in 1..Len(args[1]) :
            /\ isFinancial(args[1][i]) =>
                /\ IsString(args[2][i])
                /\ IsCanonical(args[2][i].s)
                /\ FinancialValue(FinancialParse(args[2][i])) = FinancialValue(args[1][i])
            /\ args[1][i].t \notin {"Financial", "Date"} => args[2][i] = args[1][i]
        /\ ( /\ args[3] # 0
             /\ caller = "asFinancial"
             /\ isFinancial(args[1][args[3]]) ) =>
                /\ got.kind = "return"
                /\ FinancialValue(got.value) = FinancialValue(args[1][args[3]])

C24_Witness ==
    /\ WasRead
    /\ args[1] = <<NullV, FinancialParse(StrV(<<"0", ".", "0", "5">>))>>
    /\ args[2] = <<NullV, StrV(<<"0", ".", "0", "5">>)>>
    /\ args[3] = 2
    /\ caller = "asFinancial"
    /\ got.kind = "return"

----------------------------------------------------------------------------
(* Properties of the Result Record, checked under SpecRecord *)

IsColumnOrdinal(k, fields) ==
    IsInteger(k) /\ k.n10 >= 0 /\ k.n10 \div 10 < Len(fields)

IsColumnName(k, fields) == \E p \in 1..Len(fields) : fields[p].name = k.s

Asked == cell # Idle /\ rec.made.kind = "return"

(* C27: get(index) fails with ArgumentError for every index that is not the
   ordinal of a column, get(name) fails with ArgumentError for every name
   that is not the name of a column; no cell is returned. *)
C27_NoSuchColumn ==
    ( /\ Asked
      /\ \/ IsNumber(key) /\ ~IsColumnOrdinal(key, rec.fields)
         \/ IsString(key) /\ ~IsColumnName(key, rec.fields) ) =>
        /\ cell.kind = "throw"
        /\ cell.error.name = "ArgumentError"

HasDuplicateNames(fields) ==
    \E p, q \in 1..Len(fields) : p # q /\ fields[p].name = fields[q].name

(* C28: for a row whose field descriptors repeat a column name, access by
   name raises an explicit error (the record constructor's, as the row
   object carries fewer values than there are descriptors) and returns no
   cell for either of the duplicates. *)
C28_DuplicateNames ==
    ( /\ cell # Idle
      /\ IsString(key)
      /\ HasDuplicateNames(rec.fields) ) =>
        cell = Throw(InternalError([text |-> "Fields count is not equal to data columns"]))

C28_Witness ==
    /\ Len(rec.fields) = 2
    /\ rec.fields[1].name = "a"
    /\ rec.fields[2].name = "a"
    /\ key = StrV("a")
    /\ cell.kind = "throw"
    /\ cell.error.name = "Error"

----------------------------------------------------------------------------
(* Properties of the migration manager, checked under SpecMigration *)

Created(called) == mig # Idle /\ mig.op = called

SchemaIsEmpty(d) == d.nTables = 0 /\ ~d.exists /\ d.nViews = 0

(* names of the tables, or where there is none of the views, that stand in
   the way *)
Offending(d) ==
    IF d.nTables > 0 \/ d.exists
    THEN SelectSeq(pg_tables(d), LAMBDA n : n # emptytestflag)
    ELSE ViewNames(d.nViews)

(* C29: createVersionTable creates the ledger table only if the schema has
   no table other than the empty-marker table and no view; otherwise it
   fails with MigrationError naming offending tables or views, at most 5,
   and the ledger table is not created. *)
C29_CreateVersionTable ==
    Created("createVersionTable") =>
        IF SchemaIsEmpty(mig.was)
        THEN /\ mig.result = Ret(UndefinedV)
             /\ db = [mig.was EXCEPT !.exists = TRUE]
        ELSE /\ mig.result.kind = "throw"
             /\ mig.result.error.name = "MigrationError"
             /\ LET names == mig.result.error.message.names
                IN  /\ Len(names) >= 1
                    /\ Len(names) <= 5
                    /\ \A i \in 1..Len(names) :
                         \E j \in 1..Len(Offending(mig.was)) : names[i] = Offending(mig.was)[j]
             /\ db = mig.was

C29_Witness ==
    /\ Created("createVersionTable")
    /\ mig.was.nTables = MaxTables
    /\ mig.result.kind = "throw"
    /\ Len(mig.result.error.message.names) = 5
    /\ ~db.exists

(* C30: getCurrentVersion returns null when the schema has no ledger table
   and when the ledger is empty (as right after createVersionTable on an
   empty schema); otherwise the highest version stored in the ledger, in the
   order of the version column. *)
C30_GetCurrentVersion ==
    Created("getCurrentVersion") =>
        IF ~mig.was.exists \/ mig.was.rows = <<>>
        THEN mig.result = Ret(NullV)
        ELSE /\ mig.result.kind = "return"
             /\ \E i \in 1..Len(mig.was.rows) : mig.was.rows[i].version = mig.result.value
             /\ \A i \in 1..Len(mig.was.rows) :
                  ~ColumnLess(mig.was.collation, mig.result.value.s,
                              mig.was.rows[i].version.s)

C30_Witness ==
    /\ Created("getCurrentVersion")
    /\ Len(mig.was.rows) = 2
    /\ mig.was.rows[1].version = StrV(<<"2">>)
    /\ mig.was.rows[2].version = StrV(<<"1", "0">>)
    /\ mig.result = Ret(StrV(<<"2">>))

C30_WitnessEmpty ==
    /\ Created("getCurrentVersion")
    /\ mig.was.exists
    /\ mig.was.rows = <<>>
    /\ mig.result = Ret(NullV)

----------------------------------------------------------------------------
(* Properties of the error classification, checked under SpecExec *)

(* C39: a driver failure with code 42000 is re-raised as SqlSyntaxError,
   like a failure with code 42601. *)
C39_SyntaxOrAccessRule ==
    ( /\ op # "none"
      /\ IsDriverError(reply)
      /\ reply.reason.code = "42000" ) =>
        /\ Threw(ret, "SqlSyntaxError")
        /\ ret.error.innerError = reply.reason

SameOutcome(a, b) ==
    /\ a.kind = b.kind
    /\ a.kind = "return" => a.value = b.value
    /\ a.kind = "throw" => a.error.name = b.error.name

OrNull(strict) ==
    IF Threw(strict, "SqlNoSuchRecordError") THEN Ret(NullV) ELSE strict

(* C33: on every driver result executeScalarOrNull returns what
   executeScalar returns and fails with the same kind of error, and
   executeSingleOrNull likewise with executeSingle, except that it returns
   null where the strict variant fails with NoSuchRecord. *)
C33_OrNullVariants ==
    /\ op = "executeScalarOrNull" => SameOutcome(ret, OrNull(executeScalar(reply)))
    /\ op = "executeSingleOrNull" => SameOutcome(ret, OrNull(executeSingle(reply)))

C33_SingleHalf ==
    op = "executeSingleOrNull" => SameOutcome(ret, OrNull(executeSingle(reply)))

----------------------------------------------------------------------------
(* Properties of the ledger, checked under SpecMigration *)

HasVersion(rows, version) == \E i \in 1..Len(rows) : rows[i].version = version

(* C31: on an existing ledger, insertVersionLog for a version already
   present fails with SqlConstraintError and leaves the rows unchanged; for
   a version not yet present it adds exactly one row holding that version
   and log text. *)
C31_InsertVersionLog ==
    ( /\ Created("insertVersionLog")
      /\ mig.was.exists ) =>
        IF HasVersion(mig.was.rows, mig.version)
        THEN /\ Threw(mig.result, "SqlConstraintError")
             /\ mig.result.error.innerError.code = "23505"
             /\ db = mig.was
        ELSE /\ mig.result = Ret(UndefinedV)
             /\ db = [mig.was EXCEPT !.rows =
                        Append(@, [version |-> mig.version, log |-> mig.logText])]

C31_Witness ==
    /\ Created("insertVersionLog")
    /\ mig.was.exists
    /\ HasVersion(mig.was.rows, mig.version)
    /\ Threw(mig.result, "SqlConstraintError")
    /\ db.rows = mig.was.rows

----------------------------------------------------------------------------
(* Properties of install, checked under SpecInstall *)

LedgerVersions(d) == [i \in 1..Len(d.rows) |-> d.rows[i].version]

IsPrefix(a, b) == Len(a) <= Len(b) /\ a = SubSeq(b, 1, Len(a))

(* C32: after any sequence of install runs, also runs in which the scripts
   of a unit or its ledger insert fail, the versions of the ledger in the
   order they were recorded are a prefix of the migration sources' ascending
   order. *)
C32_LedgerIsPrefix ==
    db.exists => IsPrefix(LedgerVersions(db), sort(sources))

(* a run halted at a failing unit after it applied one, and the unit after
   the failing one is not in the ledger *)
C32_Witness ==
    /\ Created("install")
    /\ mig.result.kind = "throw"
    /\ Len(db.rows) > Len(mig.was.rows)
    /\ Len(db.rows) + 1 < Cardinality(sources)
    /\ mig.targetVersion = UndefinedV

(* C38: when the units were applied in the sources' ascending order,
   getCurrentVersion returns the version of the unit applied last. *)
C38_CurrentIsLastApplied ==
    ( /\ Created("getCurrentVersion")
      /\ mig.was.exists
      /\ mig.was.rows # <<>> ) =>
        mig.result = Ret(mig.was.rows[Len(mig.was.rows)].version)

(* the same under the collation "C", where the column compares by byte *)
C38_UnderCollationC ==
    ( /\ Created("getCurrentVersion")
      /\ mig.was.exists
      /\ mig.was.rows # <<>>
      /\ mig.was.collation = "C" ) =>
        mig.result = Ret(mig.was.rows[Len(mig.was.rows)].version)

----------------------------------------------------------------------------
(* Properties of a provider used by two callers, checked under SpecShared *)

(* executeQueryMultiSets has sent BEGIN and has not settled *)
InProgress == pc \in {"begin", "stmt", "fetch", "commit", "rollback"}

(* C34: while executeQueryMultiSets of a provider is in progress, between
   its BEGIN and its COMMIT or ROLLBACK, no other operation started on the
   same provider hands a statement to the connection. *)
C34_OneOperationAtATime == [][op' # op => ~InProgress]_vars

(* the other operation's statement ran after BEGIN was answered and before
   COMMIT or ROLLBACK was sent *)
OtherStatementOutsideTransaction == ~(op = "execute" /\ pc \in {"stmt", "fetch"})

----------------------------------------------------------------------------
(* Properties of the transactions the layer opens, checked under
   SpecTransactions *)

Closing == {"COMMIT", "COMMIT TRANSACTION", "ROLLBACK", "ROLLBACK TRANSACTION"}

RECURSIVE InTransaction(_, _, _)
(* whether the connection is inside a transaction after the first n
   statements were answered: a statement that failed changes nothing, also
   a COMMIT that failed *)
InTransaction(statements, oks, n) ==
    IF n = 0 THEN FALSE
    ELSE LET before == InTransaction(statements, oks, n - 1)
         IN  IF ~oks[n] THEN before
             ELSE IF statements[n].sql = BeginSql.sql THEN TRUE
             ELSE IF statements[n].sql \in Closing THEN FALSE
             ELSE before

BeginSucceeded(statements, oks) ==
    \E n \in 1..Len(oks) : statements[n].sql = BeginSql.sql /\ oks[n]

RollbackFailed(statements, oks) ==
    \E n \in 1..Len(oks) :
        statements[n].sql \in {"ROLLBACK", "ROLLBACK TRANSACTION"} /\ ~oks[n]

MultiOks == [n \in 1..Len(answered) |-> answered[n].reply.ok]

(* C35: unless the driver failed a ROLLBACK, when executeQueryMultiSets or
   usingProviderWithTransaction has settled after its BEGIN succeeded the
   connection is in no transaction, and the client is never released to the
   pool inside a transaction. *)
C35_NoOpenTransaction ==
    /\ ( /\ pc = "done"
         /\ BeginSucceeded(sent, MultiOks)
         /\ ~RollbackFailed(sent, MultiOks) ) =>
            ~InTransaction(sent, MultiOks, Len(answered))
    /\ factoryState # "off" =>
        \A t \in 1..MaxCallers :
            ( /\ task[t].pc = "done" \/ task[t].releases > 0
              /\ BeginSucceeded(task[t].sent, task[t].answered)
              /\ ~RollbackFailed(task[t].sent, task[t].answered) ) =>
                ~InTransaction(task[t].sent, task[t].answered, Len(task[t].answered))

(* usingProviderWithTransaction settled after COMMIT failed and ROLLBACK
   went through *)
C35_Witness ==
    /\ factoryState # "off"
    /\ task[1].kind = "usingProviderWithTransaction"
    /\ task[1].pc = "done"
    /\ task[1].releases = 1
    /\ Len(task[1].answered) = 5
    /\ task[1].answered[3] /\ ~task[1].answered[4] /\ task[1].answered[5]

(* executeQueryMultiSets settled with its result sets after COMMIT *)
C35_WitnessMultiSets ==
    /\ pc = "done"
    /\ mret.kind = "return"
    /\ Len(friendlyResult) > 0
    /\ BeginSucceeded(sent, MultiOks)

----------------------------------------------------------------------------
(* Properties of the counted pool, checked under SpecLazy and SpecLazyFair *)

Live == {c \in 1..MaxCreates : lazy.calls[c].pc = "resolved"}

CounterIsLive == lazy._providesCount = Cardinality(Live)

(* a call that is over without a live provider holds no connection *)
EveryConnectionReleased ==
    \A c \in 1..MaxCreates :
        lazy.calls[c].pc \in {"rejected", "pending", "disposed"} => ~lazy.calls[c].holds

(* a pool is ended once, and not under a live provider *)
EndedAtZero ==
    \A p \in 1..Len(lazy.pools) :
        /\ lazy.pools[p].ends <= 1
        /\ lazy.pools[p].ends = 1 => \A c \in Live : lazy.calls[c].pool # p

EndedPoolNotUsed == \A c \in 1..MaxCreates : ~lazy.calls[c].onEnded

(* C36: the counter equals the number of created and not yet disposed
   providers, every acquired connection is released, the pool is ended
   exactly when the count returns to zero, and an ended pool is never asked
   for another connection. *)
C36_CountedPool ==
    /\ CounterIsLive
    /\ EveryConnectionReleased
    /\ EndedAtZero
    /\ EndedPoolNotUsed

(* C37: every create call eventually settles, with a provider or with a
   failure. *)
C37_CreateSettles ==
    \A c \in 1..MaxCreates :
        (lazy.calls[c].pc = "connect") ~>
            (lazy.calls[c].pc \in {"resolved", "rejected", "disposed"})

====
